---- MODULE Spec2Model ----
(***************************************************************************)
(* Terminal automation engine of sdfai: AsyncSSHConnection and             *)
(* COMChatConnection (src/connection_manager.py).                          *)
(*                                                                         *)
(* The session is driven by asyncio coroutines.  A coroutine runs without  *)
(* interruption from one suspension point (an await that really yields) to *)
(* the next, so one step of the model is one such run: the operators named *)
(* after the source functions (connect, invoke_shell, send, ...) are the   *)
(* code between two suspension points, Run composes them until the task    *)
(* suspends again, and the actions are the events that resume a suspended  *)
(* task (a connect that completes, a sleep that ends, a read that returns) *)
(* together with the calls of the callers and the moves of the remote.     *)
(***************************************************************************)
EXTENDS Integers, Sequences, FiniteSets, TLC

VARIABLES
    session,   \* the fields of the connection object and of its ConnectionState
    remote,    \* the transport, the remote process and the output in flight
    stack,     \* per task, the coroutine frames (the last one is running)
    obs,       \* observations for the properties (never read by the code)
    monitor,   \* the rendered screen and the state of the monitor loop
    registry   \* the sessions of one connection id and the registry of ids

vars == <<session, remote, stack, obs, monitor, registry>>

(***************************** bounds **************************************)
\* successful connects of one session in one behaviour (caps reconnect_count)
MaxConnects == 2
\* chunks of remote output held in flight and in the expect buffer together
MaxBuf == 2
\* ticks a reader.read waits before its wait_for gives up (0.1 s, line 307)
ReadTimeout == 1
\* ticks of the expect timeouts (5.0 s, 3.0 s and 10.0 s scaled down)
EnterTimeout == 2
ListTimeout == 1
\* ticks of config.idle_timeout (3600 s scaled down)
IdleTimeout == 2
\* ticks by which an expect may overrun its timeout
Tolerance == 2
\* tokens of a screen line
MaxLine == 4
\* rows of the screen (terminal_height)
ScreenRows == 2
\* calls of send that the observations of two callers record
MaxSends == 3
\* columns of the screen (terminal_width)
ScreenCols == 3
\* characters fed to the screen emulator in one behaviour
MaxFeed == 4
\* fingerprints the monitor loop remembers (100 in the code)
SeenCap == 2
\* tokens of the content that enter a fingerprint (30 characters in the code)
FingerprintLen == 2

(************************* program constants *******************************)
max_retries == 5
retry_delay_base == 5
retry_delay_cap == 60

Rooms == {"lobby", "hackers"}
Tasks == {"caller", "caller2", "keepalive", "idle_check", "monitor"}
Background == {"keepalive", "idle_check"}

\* suspension points: a task whose running frame is at one of these waits
AwaitPcs == {"created", "await_connect", "await_wait_closed",
             "await_create_process", "sleep", "await_lock", "await_read",
             "settle", "await_callback", "await_task"}

\* session objects that can exist for the one connection id of the model
MaxInstances == 2

Instances == 1..MaxInstances

\* no session object yet: the class registry _instances and the two
\* dictionaries of the manager are empty (0: no entry)
NoRegistry ==
    [_instances |-> 0, _connections |-> 0, _com_connections |-> 0, made |-> 0,
     closing |-> <<>>,
     inst |-> [i \in Instances |->
                 [_conn |-> FALSE, _connected |-> FALSE, pc |-> "idle"]]]

(***************************** frames **************************************)
Frame(proc, arg) ==
    [proc |-> proc, pc |-> "start", arg |-> arg, pat |-> "",
     n |-> 0, d |-> 0, r |-> FALSE]

Bundle == [session |-> session, remote |-> remote, stack |-> stack,
           obs |-> obs, monitor |-> monitor,
           detect |-> FALSE, reply |-> FALSE, raises |-> FALSE, pops |-> <<>>]

Top(M, t) == M.stack[t][Len(M.stack[t])]

SetTop(M, t, f) ==
    [M EXCEPT !.stack[t][Len(M.stack[t])] = f]

Goto(M, t, pc) ==
    [M EXCEPT !.stack[t][Len(M.stack[t])].pc = pc]

\* await callee(arg): the caller resumes at cont with the result in r
Call(M, t, cont, callee) ==
    [M EXCEPT !.stack[t] = Append([@ EXCEPT ![Len(@)].pc = cont], callee)]

\* a coroutine returns val: its frame is dropped and its caller, if any, holds
\* val in r; a task whose last frame returns has ended
Return(M, t, val) ==
    LET s == M.stack[t]
        k == Len(s)
    IN  IF k > 1
        THEN [M EXCEPT !.stack[t] = [SubSeq(s, 1, k - 1) EXCEPT ![k - 1].r = val]]
        ELSE LET M1 == [M EXCEPT !.stack[t] = <<>>]
             IN  CASE t = "keepalive" ->
                        [M1 EXCEPT !.session._keepalive_task = "done"]
                   [] t = "idle_check" ->
                        [M1 EXCEPT !.session._idle_check_task = "done"]
                   [] t = "monitor" ->
                        [M1 EXCEPT !.monitor._monitor_task = "done",
                                   !.monitor.loops = @ - 1]
                   [] OTHER -> M1

(*************************** message extraction ****************************)
\* A line is a sequence of tokens: a token is one punctuation character or
\* one maximal run of characters of [a-zA-Z0-9_@]; two word tokens side by
\* side are one longer word.
Words == {"alice", "TIP", "sdfbot", "tip", "System", "Strength"}

\* the tokens of the lines that the specifications enumerate
Tokens == {"[", "]", "<", ">", ":", " ", "alice", "TIP", "sdfbot"}

\* config.username
Username == "sdfbot"

\* str.upper and str.lower on the words
Upper(w) ==
    CASE w = "alice" -> "ALICE" [] w = "sdfbot" -> "SDFBOT" [] w = "tip" -> "TIP"
      [] w = "System" -> "SYSTEM" [] w = "Strength" -> "STRENGTH" [] OTHER -> w

Lower(w) ==
    CASE w = "TIP" -> "tip" [] w = "System" -> "system"
      [] w = "Strength" -> "strength" [] OTHER -> w

RECURSIVE LinesUpTo(_)
LinesUpTo(n) ==
    IF n = 0 THEN {<<>>}
    ELSE LET S == LinesUpTo(n - 1)
         IN  S \cup {Append(l, c) : l \in {x \in S : Len(x) = n - 1}, c \in Tokens}

\* str.strip
Strip(l) ==
    LET I == {i \in 1..Len(l) : l[i] # " "}
    IN  IF I = {} THEN <<>>
        ELSE SubSeq(l, CHOOSE i \in I : \A j \in I : i <= j,
                       CHOOSE i \in I : \A j \in I : i >= j)

NoMatch == [ok |-> FALSE, sender |-> <<>>, content |-> <<>>]

\* \s*(.+) on the rest of a line: the spaces are skipped, and given back
\* when nothing else is left for the group
Content(rest) ==
    LET I == {i \in 1..Len(rest) : rest[i] # " "}
    IN  IF I = {} THEN <<rest[Len(rest)]>>
        ELSE SubSeq(rest, CHOOSE i \in I : \A j \in I : i <= j, Len(rest))

\* re.match of open([^close]+)close\s*(.+)
MatchDelimited(l, open, close) ==
    LET J == {j \in 2..Len(l) : l[j] = close}
        j == CHOOSE i \in J : \A k \in J : i <= k
    IN  IF Len(l) = 0 \/ l[1] # open \/ J = {} THEN NoMatch
        ELSE IF j < 3 \/ j = Len(l) THEN NoMatch
        ELSE [ok |-> TRUE, sender |-> SubSeq(l, 2, j - 1),
              content |-> Content(SubSeq(l, j + 1, Len(l)))]

\* r'\[([^\]]+)\]\s*(.+)'
MatchBracket(l) == MatchDelimited(l, "[", "]")

\* r'<([^>]+)>\s*(.+)'
MatchAngle(l) == MatchDelimited(l, "<", ">")

\* ([a-zA-Z0-9_@]+)\s*[:]\s*(.+) matched from position i of the line
MatchColonAt(l, i) ==
    LET W == {j \in i..Len(l) : \A k \in i..j : l[k] \in Words}
        w == CHOOSE j \in W : \A k \in W : j >= k
        S == {j \in w..Len(l) : \A k \in (w + 1)..j : l[k] = " "}
        c == (CHOOSE j \in S : \A k \in S : j >= k) + 1
    IN  IF W = {} THEN NoMatch
        ELSE IF c >= Len(l) \/ l[c] # ":" THEN NoMatch
        ELSE [ok |-> TRUE, sender |-> SubSeq(l, i, w),
              content |-> Content(SubSeq(l, c + 1, Len(l)))]

\* the third pattern found anywhere in the line
MatchColon_Search(l) ==
    LET I == {i \in 1..Len(l) : MatchColonAt(l, i).ok}
    IN  IF I = {} THEN NoMatch
        ELSE MatchColonAt(l, CHOOSE i \in I : \A j \in I : i <= j)

\* r'([a-zA-Z0-9_@]+)\s*[:：]\s*(.+)'
MatchColon(l) == MatchColonAt(l, 1)

\* the patterns list, in its order
Match(k, l) ==
    CASE k = 1 -> MatchBracket(l)
      [] k = 2 -> MatchAngle(l)
      [] k = 3 -> MatchColon(l)

\* the noise test comparing the sender as it is written
IsNoise_ExactCase(sender) ==
    /\ Len(sender) = 1
    /\ sender[1] \in {"TIP", "SYSTEM", "alignment", "strength", "dexterity"}

\* the senders that are not users
IsNoise(sender) ==
    /\ Len(sender) = 1
    /\ \/ Upper(sender[1]) \in {"TIP", "SYSTEM"}
       \/ Lower(sender[1]) \in {"alignment", "strength", "dexterity"}

\* the loop over the patterns for one stripped line, from pattern k on
RECURSIVE TryPatterns(_, _)
TryPatterns(l, k) ==
    IF k > 3 THEN <<>>
    ELSE LET m == Match(k, l)
             sender == Strip(m.sender)
             content == Strip(m.content)
         IN  IF ~m.ok THEN TryPatterns(l, k + 1)
             ELSE IF sender # <<>> /\ content # <<>> /\ sender # <<Username>>
             THEN IF IsNoise(sender)
                  THEN TryPatterns(l, k + 1)
                  ELSE <<[sender |-> sender, content |-> content]>>
             ELSE <<>>

\* _parse_messages() on the lines of the screen text
RECURSIVE _parse_messages(_)
_parse_messages(screen) ==
    IF screen = <<>> THEN <<>>
    ELSE LET line == Strip(screen[1])
         IN  (IF line = <<>> THEN <<>> ELSE TryPatterns(line, 1))
                 \o _parse_messages(Tail(screen))

(***************************** the monitor loop ****************************)
\* the lines that the chat prints in this specification
ChatLines ==
    {<<"[", "alice", "]", "TIP">>, <<"<", "alice", ">", "alice">>,
     <<"alice", ":", "alice">>, <<"alice", ":", "[">>, <<"TIP", ":", "alice">>}

\* msg_key: the sender and the first characters of the content
Fingerprint(msg) ==
    <<msg.sender,
      SubSeq(msg.content, 1,
             IF Len(msg.content) < FingerprintLen THEN Len(msg.content)
                                                  ELSE FingerprintLen)>>

\* observation: key is handed to the message callback.  since[k]: the other
\* fingerprints dispatched after the last dispatch of k; early: some
\* fingerprint was dispatched again with fewer than SeenCap others in between
Dispatched(mon, key) ==
    [mon EXCEPT
        !.early = @ \/ (key \in DOMAIN mon.since
                          /\ Cardinality(mon.since[key]) < SeenCap),
        !.since = [k \in DOMAIN mon.since \cup {key} |->
                      IF k = key THEN {} ELSE mon.since[k] \cup {key}]]

\* add(key) without the pop() over the cap
AfterAdd_NoPop(seen, key) == {seen \cup {key}}

\* what seen_messages can be after add(key) and, over the cap, one pop()
AfterAdd(seen, key) ==
    LET added == seen \cup {key}
    IN  IF Cardinality(added) > SeenCap
        THEN {added \ {e} : e \in added}
        ELSE {added}

\* the for loop of _monitor_loop over the parsed messages: the states of the
\* loop it can end in
RECURSIVE Dispatch(_, _)
Dispatch(mon, msgs) ==
    IF msgs = <<>> THEN {mon}
    ELSE LET key == Fingerprint(msgs[1])
         IN  IF key \in mon.seen_messages
             THEN Dispatch(mon, Tail(msgs))
             ELSE UNION {Dispatch([Dispatched(mon, key) EXCEPT
                                      !.seen_messages = seen],
                                  Tail(msgs)) :
                            seen \in AfterAdd(mon.seen_messages, key)}

\* the screen after the chat has printed the lines of out at its bottom
Feed(screen, out) ==
    LET all == screen \o out
    IN  IF Len(all) > ScreenRows
        THEN SubSeq(all, Len(all) - ScreenRows + 1, Len(all))
        ELSE all

(************************ AsyncSSHConnection *******************************)
\* last_activity = time.time(): the idle time restarts from 0
update_activity(M) ==
    [M EXCEPT !.session._state.idle = 0,
              !.session._state.disconnect_notified = FALSE,
              !.obs.notifications = 0]

_start_keepalive(M) ==
    IF M.session._keepalive_task \in {"none", "done"}
    THEN [M EXCEPT !.session._keepalive_task = "running",
                   !.stack["keepalive"] =
                       <<[Frame("_keepalive_loop", "") EXCEPT !.pc = "created"]>>]
    ELSE M

_stop_keepalive(M) ==
    IF M.session._keepalive_task = "running"
    THEN [M EXCEPT !.session._keepalive_task = "cancelling"]
    ELSE M

_start_idle_check(M) ==
    IF M.session._idle_check_task \in {"none", "done"}
    THEN [M EXCEPT !.session._idle_check_task = "running",
                   !.stack["idle_check"] =
                       <<[Frame("_idle_check_loop", "") EXCEPT !.pc = "created"]>>]
    ELSE M

_stop_idle_check(M) ==
    IF M.session._idle_check_task = "running"
    THEN [M EXCEPT !.session._idle_check_task = "cancelling"]
    ELSE M

\* connect(), up to the await of asyncssh.connect
connect(M, t) ==
    LET M0 == [M EXCEPT !.obs.written = IF t \in Background THEN <<>> ELSE @]
    IN  IF M.session._connected
        THEN Return(M0, t, TRUE)
        ELSE Goto([M0 EXCEPT !.obs.connect_attempts =
                                 IF t \in Background THEN @ + 1 ELSE @],
                  t, "await_connect")

\* a connect that starts the idle check of every session
StartsIdleCheck_Always(s) == TRUE

\* if not self.config.is_persistent: self._start_idle_check()
StartsIdleCheck(s) == ~s.is_persistent

\* connect(), from the completion of asyncssh.connect to its return
connect_completes(M, t, outcome) ==
    CASE outcome = "ok" ->
           LET M1 == [M EXCEPT
                        !.session._conn = TRUE,
                        !.session._connected = TRUE,
                        !.session._state.is_connected = TRUE,
                        !.session._state.idle = 0,
                        !.session._state.reconnect_count = @ + 1,
                        !.session.registered = TRUE,
                        !.remote.link = "up",
                        !.remote.mode = IF M.remote.link = "up" THEN @ ELSE "none",
                        !.remote.pending = IF M.remote.link = "up" THEN @ ELSE <<>>]
               M2 == _start_keepalive(M1)
               M3 == IF StartsIdleCheck(M.session) THEN _start_idle_check(M2)
                                                   ELSE M2
           IN  Return(M3, t, TRUE)
      [] outcome = "timeout" -> Return(M, t, FALSE)
      [] OTHER -> Return([M EXCEPT !.session._connected = FALSE], t, FALSE)

\* disconnect(), up to the await of wait_closed (or to the end, without _conn)
disconnect_finish(M, t) ==
    Return([M EXCEPT !.session._conn = FALSE,
                     !.session._connected = FALSE,
                     !.session._in_shell = FALSE,
                     !.session._state.is_connected = FALSE,
                     !.session.registered = FALSE], t, TRUE)

disconnect(M, t) ==
    LET M0 == _stop_idle_check(_stop_keepalive(M))
        M1 == [M0 EXCEPT !.monitor.lost = M.monitor.screen,
                         !.monitor.carried = M.monitor.screen # <<>>]
        M2 == IF M1.session._process
              THEN [M1 EXCEPT !.session._process = FALSE,
                              !.remote.mode = "none", !.remote.pending = <<>>]
              ELSE M1
    IN  IF M2.session._conn
        THEN Goto([M2 EXCEPT !.remote.link = "down", !.remote.mode = "none",
                             !.remote.pending = <<>>], t, "await_wait_closed")
        ELSE disconnect_finish(M2, t)

_keepalive_loop(M, t) ==
    LET f == Top(M, t)
    IN  CASE f.pc = "loop" ->
               IF M.session._connected THEN Goto(M, t, "sleep")
                                     ELSE Return(M, t, TRUE)
          [] f.pc = "after_sleep" ->
               \* is_connected() of the transport says the link is gone
               IF /\ M.session._connected /\ M.session._conn
                  /\ M.remote.link # "up" /\ M.detect
               THEN IF M.session._connected
                    THEN Call(M, t, "loop", Frame("_handle_disconnect", ""))
                    ELSE Goto(M, t, "loop")
               ELSE Goto(M, t, "loop")

\* the loss handler without the is_persistent condition
InvokesReconnect_AnyCallback(s) == s._reconnect_callback # "none"

\* the condition under which _handle_disconnect awaits the reconnect callback
InvokesReconnect(s) ==
    s.is_persistent /\ s._reconnect_callback # "none"

_handle_disconnect(M, t) ==
    LET f == Top(M, t)
        cb == M.session._reconnect_callback
        calls == InvokesReconnect(M.session)
        M1 == [M EXCEPT !.monitor.lost = M.monitor.screen,
                        !.monitor.carried = M.monitor.screen # <<>>,
                        !.session._connected = FALSE,
                        !.session._in_shell = FALSE,
                        !.session._state.is_connected = FALSE,
                        !.obs.loss_room = M.session._state.last_room,
                        !.obs.interfered = (M.stack["caller"] # <<>>),
                        !.obs.connect_attempts = 0,
                        !.obs.written = <<>>,
                        !.obs.losses = @ + 1,
                        !.obs.reconnect = IF calls THEN "running" ELSE "none"]
    IN  CASE f.pc = "start" ->
               IF calls
               THEN Call(M1, t, "after_callback", Frame(cb, ""))
               ELSE Return(M1, t, TRUE)
          [] f.pc = "after_callback" -> Return(M, t, TRUE)

\* a reconnect callback registered by set_reconnect_callback from outside
reconnect_callback(M, t) ==
    LET f == Top(M, t)
    IN  CASE f.pc = "start" -> Goto(M, t, "await_callback")
          [] f.pc = "after_callback" -> Return(M, t, TRUE)

\* the idle check without the notified flag
ShouldNotify_EveryCheck(st) == st.idle >= IdleTimeout

\* the idle check: idle for idle_timeout and not yet notified
ShouldNotify(st) == st.idle >= IdleTimeout /\ ~st.disconnect_notified

_idle_check_loop(M, t) ==
    LET f == Top(M, t)
        st == M.session._state
    IN  CASE f.pc = "loop" ->
               IF M.session._connected THEN Goto(M, t, "sleep")
                                     ELSE Return(M, t, TRUE)
          [] f.pc = "after_sleep" ->
               IF ShouldNotify(st)
               THEN LET M1 == [M EXCEPT !.session._state.disconnect_notified = TRUE]
                    IN  IF M.session._disconnect_callback
                        THEN Goto([M1 EXCEPT !.obs.notifications = @ + 1],
                                  t, "await_callback")
                        ELSE Goto(M1, t, "loop")
               ELSE Goto(M, t, "loop")
          [] f.pc = "after_callback" -> Goto(M, t, "loop")

(****************************** the remote *********************************)
JoinCmd(room) == "j " \o room

JoinCmds == {JoinCmd(r) : r \in Rooms}

RoomOf(line) == CHOOSE r \in Rooms : line = JoinCmd(r)

\* the lines that are commands of the chat program, not of the shell
ChatCmds == {"q", "w", "l", "msg", "p"} \cup JoinCmds

\* the remote prints tok, unless the model's buffers are full
Emit(M, tok) ==
    IF Len(M.remote.pending) + Len(M.session._expect_buffer) < MaxBuf
    THEN [M EXCEPT !.remote.pending = Append(@, tok)]
    ELSE M

\* the remote process reads one line of input; misread: its shell takes a
\* command of the chat program for a shell command.  M.reply: it honours the line
\* and prints its prompt; otherwise it ignores the line and prints nothing
RemoteReceive(M, line) ==
    LET m == M.remote.mode
        M1 == [M EXCEPT !.remote.misread = (m = "shell" /\ line \in ChatCmds)]
    IN  IF ~M.reply THEN M1
        ELSE CASE m = "shell" /\ line = "com" ->
                    Emit([M1 EXCEPT !.remote.mode = "com",
                                    !.remote.room = "lobby"], "COM>")
               [] m = "shell" /\ line # "com" -> Emit(M1, "$")
               [] m = "com" /\ line = "q" ->
                    Emit([M1 EXCEPT !.remote.mode = "shell"], "$")
               [] m = "com" /\ line \in JoinCmds ->
                    Emit([M1 EXCEPT !.remote.room = RoomOf(line)], "COM>")
               [] OTHER -> Emit(M1, "COM>")

\* re.search(pattern, buffer, IGNORECASE | MULTILINE) on the chunks received
MatchingChunks(pat) ==
    CASE pat = "COM_MODE_PROMPT" -> {"COM>"}
      [] pat = "COM_PROMPT" -> {"COM>", "$"}
      [] OTHER -> {}

Matches(pat, buffer) ==
    \E i \in 1..Len(buffer) : buffer[i] \in MatchingChunks(pat)

(*********************** shell, send and expect ****************************)
\* observation: the lines the reconnect has written since its last connect
\* attempt, and the room of the last join command of a caller
Written(M, t, line) ==
    [M EXCEPT !.obs.written = IF t \in Background THEN Append(@, line) ELSE @,
              !.obs.joined = IF t = "caller" /\ line \in JoinCmds
                             THEN RoomOf(line) ELSE @,
              !.obs.arrived = IF M.obs.tracing THEN Append(@, <<t, line>>)
                                               ELSE @]

\* observation: task t calls send(line)
Issued(M, t, line) ==
    [M EXCEPT !.obs.issued = IF M.obs.tracing THEN Append(@, <<t, line>>)
                                              ELSE @]

\* task t is inside a send_and_expect
InCall(M, t) ==
    \E i \in 1..Len(M.stack[t]) : M.stack[t][i].proc = "send_and_expect"

invoke_shell(M, t) ==
    LET f == Top(M, t)
    IN  CASE f.pc = "start" ->
               IF ~M.session._connected THEN Return(M, t, FALSE)
               ELSE Goto(M, t, "await_create_process")
          [] f.pc = "after_sleep" ->
               Call(M, t, "after_read", Frame("_read_output", ""))
          [] f.pc = "after_read" ->
               Return(update_activity([M EXCEPT !.session._in_shell = TRUE]),
                      t, TRUE)

\* an invoke_shell that goes on with the screen the session has
pyte_Screen_Kept(M) == [M EXCEPT !.session._stream = TRUE]

\* self._screen = pyte.Screen(...); self._stream = pyte.Stream(self._screen):
\* an empty screen.  drained: the lines of the chunks appended to the expect
\* buffer since then; carried: the screen holds lines that were on the
\* screen when the connection was last lost or closed
pyte_Screen(M) ==
    [M EXCEPT !.session._stream = TRUE,
              !.monitor.screen = <<>>,
              !.monitor.drained = <<>>,
              !.monitor.carried = FALSE]

\* invoke_shell(), from the completion of create_process to the sleep
create_process_completes(M, t, ok) ==
    IF ok
    THEN Goto(Emit([pyte_Screen(M)
                      EXCEPT !.session._process = TRUE,
                             !.session._writer = TRUE,
                             !.session._reader = TRUE,
                             !.remote.mode = "shell",
                             !.remote.room = "lobby",
                             !.remote.pending = <<>>], "$"),
              t, "sleep")
    ELSE Return(M, t, FALSE)

\* _read_output(), with the read lock held
read_locked(M, t) ==
    LET M1 == [M EXCEPT !.session._read_lock = t]
    IN  IF ~M.session._reader
        THEN Return([M1 EXCEPT !.session._read_lock = "free"], t, TRUE)
        ELSE Goto(SetTop(M1, t, [Top(M1, t) EXCEPT !.n = 0, !.r = FALSE]),
                  t, "await_read")

_read_output(M, t) ==
    IF M.session._read_lock = "free"
    THEN read_locked(M, t)
    ELSE Goto(M, t, "await_lock")

\* the lines that the chat prints for its users, as chunks of remote output
ChatChunks == {"[alice] TIP", "alice: alice"}

\* the screen line that a chunk of the chat renders
ScreenLine(chunk) ==
    CASE chunk = "[alice] TIP" -> <<"[", "alice", "]", "TIP">>
      [] chunk = "alice: alice" -> <<"alice", ":", "alice">>

\* self._stream.feed(decoded): the lines that the chunks add to the screen
\* (the model does not render the prompts, which no pattern matches)
RECURSIVE Rendered(_)
Rendered(chunks) ==
    IF chunks = <<>> THEN <<>>
    ELSE (IF Head(chunks) \in ChatChunks THEN <<ScreenLine(Head(chunks))>>
                                         ELSE <<>>)
         \o Rendered(Tail(chunks))

\* the model keeps the last MaxBuf chunks of the expect buffer
Keep(buffer) ==
    IF Len(buffer) > MaxBuf
    THEN SubSeq(buffer, Len(buffer) - MaxBuf + 1, Len(buffer))
    ELSE buffer

\* _read_output(), from the return of one reader.read; r: output is not empty
read_returns(M, t, kind) ==
    LET f == Top(M, t)
        M1 == IF f.r THEN update_activity(M) ELSE M
    IN  IF kind = "data"
        THEN SetTop([M EXCEPT !.session._expect_buffer =
                                  Keep(@ \o M.remote.pending),
                              !.obs.during =
                                  [u \in Tasks |->
                                      IF InCall(M, u)
                                      THEN Keep(@[u] \o M.remote.pending)
                                      ELSE @[u]],
                              !.monitor.drained =
                                  Feed(@, Rendered(M.remote.pending)),
                              !.monitor.screen =
                                  IF M.session._stream
                                  THEN Feed(@, Rendered(M.remote.pending))
                                  ELSE @,
                              !.remote.pending = <<>>],
                    t, [f EXCEPT !.n = 0, !.r = TRUE])
        ELSE Return([M1 EXCEPT !.session._read_lock = "free"], t, TRUE)

expect(M, t) ==
    LET f == Top(M, t)
    IN  CASE f.pc \in {"start", "loop"} ->
               IF f.n < f.d
               THEN Call(M, t, "after_read", Frame("_read_output", ""))
               ELSE Return(M, t, FALSE)
          [] f.pc = "after_read" ->
               IF Matches(f.pat, M.session._expect_buffer)
               THEN Return(M, t, TRUE)
               ELSE Goto(M, t, "loop")

\* observation: a send returns False at once
Refused(M) ==
    [M EXCEPT !.obs.refused = IF M.obs.tracing THEN @ + 1 ELSE @]

\* a channel that takes a write in any state
WriteRaises_Never(M) == FALSE

\* the write raises on a channel that is closed, and send catches it
WriteRaises(M) == M.remote.mode = "none"

\* a send that drains and settles before it writes
send_WritesAfterSettle(M, t) ==
    LET f == Top(M, t)
    IN  CASE f.pc = "start" ->
               IF ~M.session._writer
               THEN Return(Refused(Issued(M, t, f.arg)), t, FALSE)
               ELSE Goto(Issued(M, t, f.arg), t, "settle")
          [] f.pc = "after_settle" ->
               IF WriteRaises(M) THEN Return(M, t, FALSE)
               ELSE Return(update_activity(
                               RemoteReceive(Written(M, t, f.arg), f.arg)),
                           t, TRUE)

send(M, t) ==
    LET f == Top(M, t)
        M0 == Issued(M, t, f.arg)
    IN  CASE f.pc = "start" ->
               IF ~M.session._writer THEN Return(Refused(M0), t, FALSE)
               ELSE IF WriteRaises(M) THEN Return(Refused(M0), t, FALSE)
               ELSE Goto(RemoteReceive(Written(M0, t, f.arg), f.arg), t, "settle")
          [] f.pc = "after_settle" ->
               Return(update_activity(M), t, TRUE)

ExpectFrame(pat, timeout) ==
    [Frame("expect", "") EXCEPT !.pat = pat, !.d = timeout]

send_and_expect(M, t) ==
    LET f == Top(M, t)
    IN  CASE f.pc = "start" ->
               Call([M EXCEPT !.session._expect_buffer = <<>>,
                              !.obs.during[t] = <<>>],
                    t, "after_send", Frame("send", f.arg))
          [] f.pc = "after_send" ->
               IF ~f.r THEN Return(M, t, FALSE)
               ELSE Call(M, t, "after_expect", ExpectFrame(f.pat, f.d))
          \* output = self._expect_buffer
          [] f.pc = "after_expect" ->
               Return([M EXCEPT !.obs.mismatch =
                                   @ \/ M.session._expect_buffer # M.obs.during[t],
                                !.obs.during[t] = <<>>],
                      t, f.r)

SendAndExpectFrame(command, pat, timeout) ==
    [Frame("send_and_expect", command) EXCEPT !.pat = pat, !.d = timeout]

(************************* COMChatConnection *******************************)
\* the retry loop with one attempt too many
MoreAttempts_OneMore(attempt) == attempt <= max_retries

\* for attempt in range(max_retries)
MoreAttempts(attempt) == attempt < max_retries

\* the reconnect asking for the default room
ReconnectRoom_Default(s) == "lobby"

\* the room the reconnect asks enter_com for
ReconnectRoom(s) == s._state.last_room

_auto_reconnect(M, t) ==
    LET f == Top(M, t)
    IN  CASE f.pc = "start" ->
               SetTop(M, t, [f EXCEPT !.pc = "loop", !.n = 0,
                                      !.d = retry_delay_base])
          [] f.pc = "loop" ->
               IF MoreAttempts(f.n)
               THEN Call(M, t, "after_connect", Frame("connect", ""))
               ELSE Return([M EXCEPT !.obs.reconnect = "failed"], t, FALSE)
          [] f.pc = "after_connect" ->
               IF f.r
               THEN Call(M, t, "after_enter_com",
                         Frame("enter_com", ReconnectRoom(M.session)))
               ELSE Goto(M, t, "sleep")
          [] f.pc = "after_enter_com" ->
               IF f.r
               THEN Return([M EXCEPT !.obs.reconnect = "ok"], t, TRUE)
               ELSE Goto(M, t, "sleep")
          [] f.pc = "after_sleep" ->
               SetTop(M, t, [f EXCEPT !.pc = "loop", !.n = @ + 1,
                                      !.d = IF f.d * 2 < retry_delay_cap
                                            THEN f.d * 2 ELSE retry_delay_cap])

enter_com(M, t) ==
    LET f == Top(M, t)
    IN  CASE f.pc = "start" ->
               IF ~M.session._connected
               THEN Call(M, t, "after_connect", Frame("connect", ""))
               ELSE Goto(M, t, "check_shell")
          [] f.pc = "after_connect" ->
               IF ~f.r THEN Return(M, t, FALSE) ELSE Goto(M, t, "check_shell")
          [] f.pc = "check_shell" ->
               IF ~M.session._in_shell
               THEN Call(M, t, "after_invoke_shell", Frame("invoke_shell", ""))
               ELSE Goto(M, t, "send_com")
          [] f.pc = "after_invoke_shell" ->
               IF ~f.r THEN Return(M, t, FALSE) ELSE Goto(M, t, "send_com")
          [] f.pc = "send_com" ->
               Call(M, t, "after_send_and_expect",
                    SendAndExpectFrame("com", "COM_MODE_PROMPT", EnterTimeout))
          [] f.pc = "after_send_and_expect" ->
               IF f.r
               THEN LET M1 == [M EXCEPT !.session._in_com = TRUE,
                                        !.session._state.last_room = f.arg]
                    IN  IF f.arg # "lobby"
                        THEN Call(M1, t, "after_switch_room",
                                  Frame("switch_room", f.arg))
                        ELSE Return(M1, t, TRUE)
               ELSE Return(M, t, FALSE)
          [] f.pc = "after_switch_room" -> Return(M, t, f.r)

exit_com(M, t) ==
    LET f == Top(M, t)
    IN  CASE f.pc = "start" ->
               IF ~M.session._in_com THEN Return(M, t, TRUE)
               ELSE Call(M, t, "after_send", Frame("send", "q"))
          [] f.pc = "after_send" -> Goto(M, t, "sleep")
          [] f.pc = "after_sleep" ->
               Call(M, t, "after_read", Frame("_read_output", ""))
          [] f.pc = "after_read" ->
               Return([M EXCEPT !.session._in_com = FALSE], t, TRUE)

switch_room(M, t) ==
    LET f == Top(M, t)
    IN  CASE f.pc = "start" ->
               IF ~M.session._in_com THEN Return(M, t, FALSE)
               ELSE Call(M, t, "after_send", Frame("send", JoinCmd(f.arg)))
          [] f.pc = "after_send" -> Goto(M, t, "sleep")
          [] f.pc = "after_sleep" ->
               Call(M, t, "after_read", Frame("_read_output", ""))
          [] f.pc = "after_read" ->
               Return([M EXCEPT !.session._state.last_room = f.arg], t, TRUE)

send_message(M, t) ==
    LET f == Top(M, t)
    IN  CASE f.pc = "start" ->
               IF ~M.session._in_com THEN Return(M, t, FALSE)
               ELSE Call(M, t, "after_send", Frame("send", "msg"))
          [] f.pc = "after_send" -> Return(M, t, f.r)

send_private_message(M, t) ==
    LET f == Top(M, t)
    IN  CASE f.pc = "start" ->
               IF ~M.session._in_com THEN Return(M, t, FALSE)
               ELSE Call(M, t, "after_send", Frame("send", "p"))
          [] f.pc = "after_send" -> Return(M, t, f.r)

get_online_users(M, t) ==
    LET f == Top(M, t)
    IN  CASE f.pc = "start" ->
               Call(M, t, "after_send_and_expect",
                    SendAndExpectFrame("w", "COM_PROMPT", ListTimeout))
          [] f.pc = "after_send_and_expect" -> Return(M, t, f.r)

list_rooms(M, t) ==
    LET f == Top(M, t)
    IN  CASE f.pc = "start" ->
               Call(M, t, "after_send_and_expect",
                    SendAndExpectFrame("l", "COM_PROMPT", ListTimeout))
          [] f.pc = "after_send_and_expect" -> Return(M, t, f.r)

(*************************** the monitor task ******************************)
\* the three conditions of a monitor tick: monitoring enabled (m), session
\* connected (c), session in chat mode (i)
AllTrue == [m |-> TRUE, c |-> TRUE, i |-> TRUE]

\* a coroutine that awaits a monitor task goes on awaiting that task when
\* _monitor_task is bound to a new one: its frame notes whether the task it
\* awaits has ended or has its cancellation still pending
AwaitsOld(f, pending) ==
    IF f.pc = "await_task" /\ f.arg = ""
    THEN [f EXCEPT !.arg = IF pending THEN "superseded" ELSE "ended"]
    ELSE f

\* _monitoring = True and create_task(_monitor_loop()): the new task takes
\* the place of the old one in _monitor_task; an old task whose cancellation
\* is pending lives on (superseded), with the lock it may hold; loops counts
\* the monitor tasks that exist with no cancellation pending; seen_messages
\* and the messages of the for loop are locals of the new task
create_task(M) ==
    LET pending == M.monitor._monitor_task = "cancelling"
    IN  [M EXCEPT
           !.monitor._monitoring = TRUE,
           !.monitor._monitor_task = "running",
           !.monitor.seen_messages = {},
           !.monitor.todo = <<>>,
           !.monitor.loops = @ + 1,
           !.monitor.superseded = @ \/ pending,
           !.session._read_lock =
               IF pending /\ @ = "monitor" THEN "superseded" ELSE @,
           !.stack = [u \in Tasks |->
                        IF u = "monitor"
                        THEN <<[Frame("_monitor_loop", "")
                                  EXCEPT !.pc = "created"]>>
                        ELSE [i \in 1..Len(M.stack[u]) |->
                                AwaitsOld(M.stack[u][i], pending)]]]

\* start_monitor() without its test of _monitoring
start_monitor_Unguarded(M, t) == Return(create_task(M), t, TRUE)

start_monitor(M, t) ==
    IF M.monitor._monitoring THEN Return(M, t, TRUE)
    ELSE Return(create_task(M), t, TRUE)

\* stop_monitor(): it cancels the monitor task and awaits its end
stop_monitor(M, t) ==
    LET f == Top(M, t)
        task == M.monitor._monitor_task
        M1 == [M EXCEPT !.monitor._monitoring = FALSE,
                        !.monitor._monitor_task =
                            IF @ = "running" THEN "cancelling" ELSE @,
                        !.monitor.loops =
                            IF task = "running" THEN @ - 1 ELSE @]
    IN  CASE f.pc = "start" ->
               IF task \in {"none", "done"} THEN Return(M1, t, TRUE)
               ELSE Goto(M1, t, "await_task")
          [] f.pc = "after_task" -> Return(M, t, TRUE)

\* the k-th element of S in some fixed order
RECURSIVE Pick(_, _)
Pick(S, k) ==
    LET x == CHOOSE e \in S : TRUE
    IN  IF k <= 1 \/ Cardinality(S) = 1 THEN x ELSE Pick(S \ {x}, k - 1)

\* seen_messages after add(key) and, over the cap, a pop() that removes the
\* element whose rank is the first of pops
Remember(seen, key, pops) ==
    LET added == seen \cup {key}
    IN  IF Cardinality(added) > SeenCap THEN added \ {Pick(added, Head(pops))}
                                        ELSE added

\* the condition under which a tick of the monitor loop reads and extracts
MonitorActive_NoModeCheck(s) == s._connected

MonitorActive(s) == s._connected /\ s._in_com

\* what holds of the three conditions of a tick
Conditions(M) ==
    [m |-> M.monitor._monitoring, c |-> M.session._connected,
     i |-> M.session._in_com]

\* the callback has raised and the loop stops
OnCallbackError_StopsLoop(M, t) ==
    Return([M EXCEPT !.monitor.raised = TRUE], t, FALSE)

\* except Exception around the callback: the error is logged and the for
\* loop goes on
OnCallbackError(M, t) ==
    Goto([M EXCEPT !.monitor.raised = TRUE], t, "for")

\* M.raises: the callback raises; M.pops: the ranks of the elements that the
\* pops of this run remove
_monitor_loop(M, t) ==
    LET f == Top(M, t)
        mon == M.monitor
    IN  CASE f.pc = "loop" ->
               IF ~mon._monitoring THEN Return(M, t, TRUE)
               ELSE LET M1 == [M EXCEPT !.monitor.checked = Conditions(M)]
                    IN  IF ~MonitorActive(M.session)
                        THEN SetTop(M1, t, [f EXCEPT !.pc = "sleep",
                                                     !.arg = "backoff"])
                        ELSE Call(M1, t, "after_read", Frame("_read_output", ""))
          [] f.pc = "after_sleep" -> Goto(M, t, "loop")
          [] f.pc = "after_read" ->
               LET msgs == _parse_messages(mon.screen)
               IN  Goto([M EXCEPT !.monitor.todo = msgs,
                                  !.monitor.parsed = TRUE,
                                  !.monitor.unguarded =
                                      @ \/ mon.checked # AllTrue,
                                  !.monitor.stale =
                                      @ \/ Conditions(M) # AllTrue],
                        t, "for")
          [] f.pc = "for" ->
               IF mon.todo = <<>>
               THEN SetTop(M, t, [f EXCEPT !.pc = "sleep", !.arg = "cadence"])
               ELSE LET key == Fingerprint(Head(mon.todo))
                        M1 == [M EXCEPT !.monitor.todo = Tail(@)]
                    IN  IF key \in mon.seen_messages
                        THEN M1
                        ELSE LET M2 == [M1 EXCEPT
                                          !.monitor.seen_messages =
                                              Remember(@, key, M.pops),
                                          !.pops =
                                              IF Cardinality(mon.seen_messages
                                                             \cup {key}) > SeenCap
                                              THEN Tail(@) ELSE @]
                                 M3 == [M2 EXCEPT
                                          !.monitor.later = @ \/ mon.raised,
                                          !.raises = FALSE]
                             IN  CASE mon._message_callback = "none" -> M2
                                   [] mon._message_callback = "async" ->
                                        Goto(M3, t, "await_callback")
                                   [] OTHER ->
                                        IF M.raises THEN OnCallbackError(M3, t)
                                                    ELSE M3
          [] f.pc = "after_callback" ->
               IF M.raises THEN OnCallbackError([M EXCEPT !.raises = FALSE], t)
                           ELSE Goto(M, t, "for")

(************************** running a task *********************************)
\* the code of the running frame of t, up to its next call, return or await
Micro(M, t) ==
    LET p == Top(M, t).proc
    IN  CASE p = "connect" -> connect(M, t)
          [] p = "disconnect" -> disconnect(M, t)
          [] p = "_keepalive_loop" -> _keepalive_loop(M, t)
          [] p = "_idle_check_loop" -> _idle_check_loop(M, t)
          [] p = "_handle_disconnect" -> _handle_disconnect(M, t)
          [] p = "reconnect_callback" -> reconnect_callback(M, t)
          [] p = "invoke_shell" -> invoke_shell(M, t)
          [] p = "_read_output" -> _read_output(M, t)
          [] p = "expect" -> expect(M, t)
          [] p = "send" -> send(M, t)
          [] p = "send_and_expect" -> send_and_expect(M, t)
          [] p = "_auto_reconnect" -> _auto_reconnect(M, t)
          [] p = "enter_com" -> enter_com(M, t)
          [] p = "exit_com" -> exit_com(M, t)
          [] p = "switch_room" -> switch_room(M, t)
          [] p = "send_message" -> send_message(M, t)
          [] p = "send_private_message" -> send_private_message(M, t)
          [] p = "get_online_users" -> get_online_users(M, t)
          [] p = "list_rooms" -> list_rooms(M, t)
          [] p = "start_monitor" -> start_monitor(M, t)
          [] p = "stop_monitor" -> stop_monitor(M, t)
          [] p = "_monitor_loop" -> _monitor_loop(M, t)

RECURSIVE Run(_, _)
\* t runs until it suspends or ends
Run(M, t) ==
    IF M.stack[t] = <<>> \/ Top(M, t).pc \in AwaitPcs
    THEN M
    ELSE Run(Micro(M, t), t)

Apply(M) ==
    /\ session' = M.session
    /\ remote' = M.remote
    /\ stack' = M.stack
    /\ obs' = M.obs
    /\ monitor' = M.monitor
    /\ UNCHANGED registry

\* t is suspended at pc and no cancellation is pending for it
At(t, pc) ==
    /\ stack[t] # <<>>
    /\ stack[t][Len(stack[t])].pc = pc
    /\ t = "keepalive" => session._keepalive_task = "running"
    /\ t = "idle_check" => session._idle_check_task = "running"
    /\ t = "monitor" => monitor._monitor_task = "running"

TopFrame(t) == stack[t][Len(stack[t])]

\* task t is somewhere inside procedure p
HasFrame(t, p) == \E i \in 1..Len(stack[t]) : stack[t][i].proc = p

FrameOf(t, p) == stack[t][CHOOSE i \in 1..Len(stack[t]) : stack[t][i].proc = p]

(****************************** initial state ******************************)
\* COMChatConnection.__init__ forces is_persistent and registers
\* _auto_reconnect; a plain AsyncSSHConnection is configured by its creator
ComConfig == [kind |-> "com", is_persistent |-> TRUE, cb |-> "_auto_reconnect"]

SshConfigs ==
    {[kind |-> "ssh", is_persistent |-> p, cb |-> c] :
         p \in BOOLEAN, c \in {"none", "reconnect_callback"}}

NewSession(c) ==
    [kind |-> c.kind, is_persistent |-> c.is_persistent,
     _reconnect_callback |-> c.cb,
     _disconnect_callback |-> ~c.is_persistent,
     _conn |-> FALSE, _process |-> FALSE, _writer |-> FALSE, _reader |-> FALSE,
     _stream |-> FALSE,
     _connected |-> FALSE, _in_shell |-> FALSE, _in_com |-> FALSE,
     _expect_buffer |-> <<>>, _read_lock |-> "free",
     _keepalive_task |-> "none", _idle_check_task |-> "none",
     registered |-> FALSE,
     _state |-> [idle |-> 0, reconnect_count |-> 0, last_room |-> "lobby",
                 is_connected |-> FALSE, disconnect_notified |-> FALSE]]

NoRemote ==
    [link |-> "down", mode |-> "none", room |-> "lobby", pending |-> <<>>,
     misread |-> FALSE]

NoObs ==
    [connect_attempts |-> 0, losses |-> 0, written |-> <<>>, joined |-> "none",
     loss_room |-> "lobby", interfered |-> TRUE, reconnect |-> "none",
     notifications |-> 0,
     tracing |-> FALSE, issued |-> <<>>, arrived |-> <<>>, refused |-> 0,
     during |-> [t \in Tasks |-> <<>>], mismatch |-> FALSE]

\* no screen yet, and no monitor loop.  checked: what the last check of the
\* loop found; unguarded: the loop has extracted in a tick whose check had
\* not found the three conditions; stale: it has extracted at a moment at
\* which they did not hold; raised: the message callback has raised; later:
\* a message was dispatched after that
NoMonitor ==
    [screen |-> <<>>, parsed |-> FALSE, messages |-> <<>>,
     _monitoring |-> FALSE, seen_messages |-> {},
     since |-> <<>>, early |-> FALSE,
     _monitor_task |-> "none", _message_callback |-> "none", todo |-> <<>>,
     checked |-> AllTrue, unguarded |-> FALSE, stale |-> FALSE,
     raised |-> FALSE, later |-> FALSE,
     pyte |-> <<>>, fed |-> <<>>,
     loops |-> 0, superseded |-> FALSE,
     drained |-> <<>>, lost |-> <<>>, carried |-> FALSE]

Init ==
    /\ \E c \in SshConfigs : session = NewSession(c)
    /\ remote = NoRemote
    /\ stack = [t \in Tasks |-> <<>>]
    /\ obs = NoObs
    /\ monitor = NoMonitor
    /\ registry = NoRegistry

(******************************* actions ***********************************)
\* a caller awaits one public method of the session
CallerCalls(op, reply) ==
    /\ stack["caller"] = <<>>
    /\ Apply(Run([Bundle EXCEPT !.stack["caller"] = <<Frame(op[1], op[2])>>,
                                !.obs.interfered = TRUE,
                                !.reply = reply], "caller"))

\* the event loop runs a task that create_task has created
TaskStarts(t) ==
    /\ At(t, "created")
    /\ Apply(Run(Goto(Bundle, t, "loop"), t))

\* asyncssh.connect completes, or wait_for gives up on it
ConnectCompletes(t, outcome) ==
    /\ At(t, "await_connect")
    /\ outcome = "ok" => session._state.reconnect_count < MaxConnects
    /\ Apply(Run(connect_completes(Bundle, t, outcome), t))

WaitClosedCompletes(t) ==
    /\ At(t, "await_wait_closed")
    /\ Apply(Run(disconnect_finish(Bundle, t), t))

CreateProcessCompletes(t, ok) ==
    /\ At(t, "await_create_process")
    /\ ok => remote.link = "up"
    /\ Apply(Run(create_process_completes(Bundle, t, ok), t))

\* an asyncio.sleep ends.  detect: the keepalive check finds the link lost
SleepEnds(t, detect, reply) ==
    /\ At(t, "sleep")
    /\ detect => t = "keepalive" /\ TopFrame(t).proc = "_keepalive_loop"
    /\ Apply(Run(Goto([Bundle EXCEPT !.detect = detect, !.reply = reply],
                      t, "after_sleep"), t))

\* the settle delay of send ends
SettleEnds(t) ==
    /\ At(t, "settle")
    /\ Apply(Run(Goto(Bundle, t, "after_settle"), t))

\* the read lock is free for a task that waits for it
LockAcquired(t) ==
    /\ At(t, "await_lock")
    /\ session._read_lock = "free"
    /\ Apply(Run(read_locked(Bundle, t), t))

\* wait_for(reader.read(4096), 0.1) returns data, times out, or finds the
\* channel closed
ReadReturns(t, kind, reply) ==
    /\ At(t, "await_read")
    /\ CASE kind = "data" -> remote.pending # <<>>
         [] kind = "timeout" -> /\ remote.pending = <<>>
                                /\ remote.mode # "none"
                                /\ TopFrame(t).n >= ReadTimeout
         [] kind = "closed" -> remote.mode = "none" /\ remote.pending = <<>>
    /\ Apply(Run(read_returns([Bundle EXCEPT !.reply = reply], t, kind), t))

\* a callback registered from outside returns
CallbackReturns(t) ==
    /\ At(t, "await_callback")
    /\ Apply(Run(Goto(Bundle, t, "after_callback"), t))

Cancelling(t) ==
    \/ t = "keepalive" /\ session._keepalive_task = "cancelling"
    \/ t = "idle_check" /\ session._idle_check_task = "cancelling"
    \/ t = "monitor" /\ monitor._monitor_task = "cancelling"

\* CancelledError reaches a cancelled task at its suspension point: both
\* loops end, and a lock held by the task is released
CancelDelivered(t) ==
    /\ Cancelling(t)
    /\ session' = [session EXCEPT
                     !._keepalive_task = IF t = "keepalive" THEN "done" ELSE @,
                     !._idle_check_task = IF t = "idle_check" THEN "done" ELSE @,
                     !._read_lock = IF @ = t THEN "free" ELSE @]
    /\ stack' = [stack EXCEPT ![t] = <<>>]
    /\ monitor' = [monitor EXCEPT
                     !._monitor_task = IF t = "monitor" THEN "done" ELSE @]
    /\ UNCHANGED <<remote, obs, registry>>

\* the network drops the transport and the remote process with it
LinkDrops ==
    /\ remote.link = "up"
    /\ remote' = [remote EXCEPT !.link = "down", !.mode = "none",
                                !.pending = <<>>]
    /\ UNCHANGED <<session, stack, obs, monitor, registry>>

\* the monitor task that frame f awaits has ended
Ended(f) ==
    \/ f.arg = "ended"
    \/ f.arg = "" /\ monitor._monitor_task = "done"

\* a task that can run without time passing
Ready(t) ==
    /\ stack[t] # <<>>
    /\ \/ Cancelling(t)
       \/ TopFrame(t).pc = "created"
       \/ TopFrame(t).pc = "await_task" /\ Ended(TopFrame(t))
       \/ TopFrame(t).pc = "await_lock" /\ session._read_lock = "free"
       \/ /\ TopFrame(t).pc = "await_read"
          /\ \/ remote.pending # <<>>
             \/ remote.mode = "none"
             \/ TopFrame(t).n >= ReadTimeout

TickFrame(f) ==
    CASE f.proc = "expect" ->
           [f EXCEPT !.n = IF @ <= f.d + Tolerance THEN @ + 1 ELSE @]
      [] f.proc = "_read_output" /\ f.pc = "await_read" -> [f EXCEPT !.n = @ + 1]
      [] OTHER -> f

\* one tick of time passes while no task can run; counted: the tick adds to
\* the idle time (time.time() - last_activity)
Elapses(counted) ==
    /\ \A t \in Tasks : ~Ready(t)
    /\ ~monitor.superseded
    /\ stack' = [t \in Tasks |->
                    [i \in 1..Len(stack[t]) |-> TickFrame(stack[t][i])]]
    /\ session' = [session EXCEPT !._state.idle =
                      IF counted /\ @ < IdleTimeout THEN @ + 1 ELSE @]
    /\ UNCHANGED <<remote, obs, monitor, registry>>

\* a tick; the idle time of a persistent session is left out of the state
Tick == Elapses(~session.is_persistent)

\* a tick that adds to the idle time of every session
TickIdle == Elapses(TRUE)

\* what a caller calls on a plain AsyncSSHConnection
SshOps == {<<"connect", "">>, <<"disconnect", "">>, <<"invoke_shell", "">>,
           <<"send", "ls">>}

\* a plain AsyncSSHConnection, persistent or not, with or without a
\* reconnect callback, under its callers, its loops and the network
Next ==
    \/ \E op \in SshOps, reply \in BOOLEAN : CallerCalls(op, reply)
    \/ \E t \in Background : TaskStarts(t)
    \/ \E t \in Tasks, o \in {"ok", "timeout", "error"} : ConnectCompletes(t, o)
    \/ \E t \in Tasks : WaitClosedCompletes(t)
    \/ \E t \in Tasks, ok \in BOOLEAN : CreateProcessCompletes(t, ok)
    \/ \E t \in Tasks, detect, reply \in BOOLEAN : SleepEnds(t, detect, reply)
    \/ \E t \in Tasks : SettleEnds(t)
    \/ \E t \in Tasks, k \in {"data", "timeout", "closed"}, reply \in BOOLEAN :
           ReadReturns(t, k, reply)
    \/ \E t \in Tasks : CallbackReturns(t)
    \/ \E t \in Background : CancelDelivered(t)
    \/ LinkDrops
    \/ Tick

Spec == Init /\ [][Next]_vars

(************************ plain sessions: claims ***************************)
\* C30 (as stated): whenever the session is connected and no call of the
\* caller is in progress, its keepalive task is running
C30_KeepaliveWhileConnected ==
    (session._connected /\ stack["caller"] = <<>>)
        => session._keepalive_task = "running"

\* C6 (as stated): the shell-active flag is set only while the session is
\* connected
C6_ShellOnlyWhileConnected == session._in_shell => session._connected

\* C7: the step that detects a connection loss leaves the session marked
\* disconnected with the shell-active flag cleared, and leaves the keepalive
\* task inside the reconnect callback if and only if the session is
\* persistent and a reconnect callback is registered; and a session of this
\* kind becomes connected only in a connect() of a caller
C7_HandleDisconnect ==
    [][/\ obs.losses' # obs.losses =>
            /\ ~session'._connected
            /\ ~session'._in_shell
            /\ ~session'._state.is_connected
            /\ HasFrame("keepalive", "reconnect_callback")' <=>
                   (session.is_persistent /\ session._reconnect_callback # "none")
       /\ (~session._connected /\ session'._connected) =>
            At("caller", "await_connect")]_vars

C7_Witness ==
    /\ obs.losses > 0
    /\ ~session._connected
    /\ HasFrame("keepalive", "reconnect_callback")

\* C19 (as stated): invoke_shell() opens no remote process while the shell
\* is active
C19_NoSecondProcess ==
    At("caller", "await_create_process") => ~session._in_shell

\* the idle check loop wakes from its sleep and makes its check
IdleCheckWakes ==
    /\ At("idle_check", "sleep")
    /\ stack'["idle_check"] # stack["idle_check"]

\* C8: an idle check that finds the session idle for idle_timeout and not yet
\* notified sets the notified flag and invokes the disconnect callback; an
\* idle check that finds the flag set invokes nothing; the callback is never
\* invoked twice without recorded activity in between; and the flag is reset
\* only by recorded activity
C8_IdleNotifiedOnce ==
    [][/\ obs.notifications' <= 1
       /\ (/\ IdleCheckWakes
           /\ session._state.idle >= IdleTimeout
           /\ ~session._state.disconnect_notified) =>
              /\ session'._state.disconnect_notified
              /\ obs.notifications' = obs.notifications + 1
              /\ At("idle_check", "await_callback")'
       /\ (IdleCheckWakes /\ session._state.disconnect_notified) =>
              /\ session'._state.disconnect_notified
              /\ obs.notifications' = obs.notifications
       /\ (session._state.disconnect_notified
             /\ ~session'._state.disconnect_notified) =>
              /\ session'._state.idle = 0
              /\ obs.notifications' = 0]_vars

C8_Witness ==
    /\ obs.notifications = 1
    /\ session._state.disconnect_notified
    /\ session._state.idle >= IdleTimeout
    /\ At("idle_check", "sleep")

(************************** idle sessions **********************************)
\* a session of any kind before its first connect
InitIdle ==
    /\ \E c \in SshConfigs \cup {ComConfig} : session = NewSession(c)
    /\ remote = NoRemote
    /\ stack = [t \in Tasks |-> <<>>]
    /\ obs = NoObs
    /\ monitor = NoMonitor
    /\ registry = NoRegistry

\* the session under connect and disconnect, its loops, the network, and
\* time that counts as idle time whatever the session
NextIdle ==
    \/ \E op \in {<<"connect", "">>, <<"disconnect", "">>} : CallerCalls(op, FALSE)
    \/ \E t \in Background : TaskStarts(t)
    \/ \E t \in Tasks, o \in {"ok", "error"} : ConnectCompletes(t, o)
    \/ \E t \in Tasks : WaitClosedCompletes(t)
    \/ \E t \in Tasks : CreateProcessCompletes(t, FALSE)
    \/ \E t \in Tasks, detect \in BOOLEAN : SleepEnds(t, detect, FALSE)
    \/ \E t \in Tasks : CallbackReturns(t)
    \/ \E t \in Background : CancelDelivered(t)
    \/ LinkDrops
    \/ TickIdle

SpecIdle == InitIdle /\ [][NextIdle]_vars

\* C23: a persistent session has no idle check task, has never been notified
\* as idle and has never invoked a disconnect callback, however long it has
\* been idle; every chat session is persistent; and a connected session that
\* is not persistent has had its idle check started
C23_PersistentNeverIdleChecked ==
    /\ session.is_persistent =>
          /\ session._idle_check_task = "none"
          /\ stack["idle_check"] = <<>>
          /\ ~session._state.disconnect_notified
          /\ obs.notifications = 0
    /\ session.kind = "com" => session.is_persistent
    /\ (~session.is_persistent /\ session._connected) =>
          session._idle_check_task # "none"

C23_Witness ==
    /\ session.kind = "com"
    /\ session._connected
    /\ session._state.idle >= IdleTimeout
    /\ session._keepalive_task = "running"
    /\ session._idle_check_task = "none"

(******************* a chat session that loses its link ********************)
\* the session after connect() and enter_com(r): in chat mode in room r,
\* with its keepalive loop asleep
ChatSession(r) ==
    [NewSession(ComConfig) EXCEPT
        !._conn = TRUE, !._process = TRUE, !._writer = TRUE, !._reader = TRUE,
        !._stream = TRUE,
        !._connected = TRUE, !._in_shell = TRUE, !._in_com = TRUE,
        !._keepalive_task = "running", !.registered = TRUE,
        !._expect_buffer = IF r = "lobby" THEN <<"COM>">> ELSE <<"COM>", "COM>">>,
        !._state = [idle |-> 0, reconnect_count |-> 1, last_room |-> r,
                    is_connected |-> TRUE, disconnect_notified |-> FALSE]]

InitChat ==
    /\ \E r \in Rooms :
          /\ session = ChatSession(r)
          /\ remote = [link |-> "up", mode |-> "com", room |-> r,
                       pending |-> <<>>, misread |-> FALSE]
    /\ stack = [t \in Tasks |->
                   IF t = "keepalive"
                   THEN <<[Frame("_keepalive_loop", "") EXCEPT !.pc = "sleep"]>>
                   ELSE <<>>]
    /\ obs = NoObs
    /\ monitor = NoMonitor
    /\ registry = NoRegistry

\* the caller switches rooms, and leaves the session alone while a reconnect
\* is under way
NextReconnect ==
    \/ \E r \in Rooms, reply \in BOOLEAN :
           obs.reconnect # "running" /\ CallerCalls(<<"switch_room", r>>, reply)
    \/ \E t \in Tasks, o \in {"ok", "timeout", "error"} : ConnectCompletes(t, o)
    \/ \E t \in Tasks, ok \in BOOLEAN : CreateProcessCompletes(t, ok)
    \/ \E t \in Tasks, detect, reply \in BOOLEAN : SleepEnds(t, detect, reply)
    \/ \E t \in Tasks : SettleEnds(t)
    \/ \E t \in Tasks : LockAcquired(t)
    \/ \E t \in Tasks, k \in {"data", "timeout", "closed"}, reply \in BOOLEAN :
           ReadReturns(t, k, reply)
    \/ LinkDrops
    \/ Tick

SpecReconnect == InitChat /\ [][NextReconnect]_vars

C2_FiveAttemptsThenFailure ==
    (obs.reconnect = "failed" /\ ~session._connected)
        => /\ obs.connect_attempts = 5
           /\ session._keepalive_task = "done"
           /\ \A t \in Background : stack[t] = <<>>

C2_Witness ==
    /\ obs.reconnect = "failed"
    /\ ~session._connected
    /\ obs.connect_attempts = 5
    /\ obs.losses = 1

\* C5 (as stated): a reconnect that follows a join command written by
\* switch_room asks enter_com for the room of that join command
C5_ReconnectRejoinsSwitchedRoom ==
    (HasFrame("keepalive", "enter_com") /\ obs.joined # "none")
        => FrameOf("keepalive", "enter_com").arg = obs.joined

\* C21 (as stated): after a successful auto-reconnect the reconnect counter
\* of the session has its initial value
C21_ReconnectResetsCounter ==
    obs.reconnect = "ok" => session._state.reconnect_count = 0

\* C22 (as stated): the reconnect sleeps only between two attempts, that is,
\* only when another attempt follows the sleep
C22_DelayOnlyBetweenAttempts ==
    \A t \in Tasks :
        (HasFrame(t, "_auto_reconnect") /\ FrameOf(t, "_auto_reconnect").pc = "sleep")
            => FrameOf(t, "_auto_reconnect").n + 1 < max_retries

\* C25 (as stated): switch_room goes on after its send only when the send
\* has written the join command; when the send reports failure it returns
\* false at once
C25_SwitchRoomStopsOnFailedWrite ==
    \A t \in Tasks :
        (HasFrame(t, "switch_room") /\ FrameOf(t, "switch_room").pc = "sleep")
            => FrameOf(t, "switch_room").r

\* C29 (as stated): when the enter_com of a reconnect attempt returns false
\* (the attempt goes to its sleep), the session is not in chat mode
C29_FailedEntryLeavesChatModeOff ==
    [][(/\ HasFrame("keepalive", "enter_com")
        /\ ~HasFrame("keepalive", "enter_com")'
        /\ HasFrame("keepalive", "_auto_reconnect")'
        /\ FrameOf("keepalive", "_auto_reconnect")'.pc = "sleep")
          => ~session'._in_com]_vars

\* C28 (as stated): the session is in chat mode only while it is connected
\* and its shell is active
C28_ChatModeOnlyWhileConnected ==
    session._in_com => (session._connected /\ session._in_shell)

(************************* the chat operations *****************************)
\* what a caller calls on a COMChatConnection
ChatOps ==
    {<<"connect", "">>, <<"exit_com", "">>, <<"send_message", "">>,
     <<"send_private_message", "">>, <<"get_online_users", "">>,
     <<"list_rooms", "">>}
        \cup {<<"enter_com", r>> : r \in Rooms}
        \cup {<<"switch_room", r>> : r \in Rooms}

InitCold ==
    /\ session = NewSession(ComConfig)
    /\ remote = NoRemote
    /\ stack = [t \in Tasks |-> <<>>]
    /\ obs = NoObs
    /\ monitor = NoMonitor
    /\ registry = NoRegistry

\* the link stays up: the keepalive loop finds nothing
NextChat ==
    \/ \E op \in ChatOps, reply \in BOOLEAN : CallerCalls(op, reply)
    \/ TaskStarts("keepalive")
    \/ \E o \in {"ok", "timeout", "error"} : ConnectCompletes("caller", o)
    \/ \E ok \in BOOLEAN : CreateProcessCompletes("caller", ok)
    \/ \E t \in Tasks, reply \in BOOLEAN : SleepEnds(t, FALSE, reply)
    \/ SettleEnds("caller")
    \/ \E k \in {"data", "timeout"}, reply \in BOOLEAN :
           ReadReturns("caller", k, reply)
    \/ Tick

SpecChat == InitCold /\ [][NextChat]_vars

\* C4 (as stated): while the session is not in chat mode, its operations
\* write no chat command that the shell of the remote takes for its own
C4_NoChatCommandAtShell == ~session._in_com => ~remote.misread

\* C20 (as stated): no operation writes the command that enters chat mode
\* while the session is in chat mode
C20_NoEntryWhileInChat ==
    (/\ At("caller", "settle")
     /\ TopFrame("caller").proc = "send"
     /\ TopFrame("caller").arg = "com") => ~session._in_com

(********************** waiting for a pattern: claims **********************)
\* a session with its shell open, the keepalive loop asleep
ShellSession ==
    [NewSession([kind |-> "ssh", is_persistent |-> TRUE, cb |-> "none"]) EXCEPT
        !._conn = TRUE, !._process = TRUE, !._writer = TRUE, !._reader = TRUE,
        !._stream = TRUE,
        !._connected = TRUE, !._in_shell = TRUE, !._expect_buffer = <<"$">>,
        !._keepalive_task = "running", !.registered = TRUE,
        !._state.is_connected = TRUE, !._state.reconnect_count = 1]

InitShell ==
    /\ session = ShellSession
    /\ remote = [NoRemote EXCEPT !.link = "up", !.mode = "shell"]
    /\ stack = [t \in Tasks |->
                   IF t = "keepalive"
                   THEN <<[Frame("_keepalive_loop", "") EXCEPT !.pc = "sleep"]>>
                   ELSE <<>>]
    /\ obs = NoObs
    /\ monitor = NoMonitor
    /\ registry = NoRegistry

\* the caller awaits send_and_expect with a pattern that matches no output
CallerExpects(timeout, reply) ==
    /\ stack["caller"] = <<>>
    /\ Apply(Run([Bundle EXCEPT
                     !.stack["caller"] =
                         <<SendAndExpectFrame("ls", "NEVER", timeout)>>,
                     !.obs.interfered = TRUE,
                     !.reply = reply], "caller"))

\* the remote prints a chunk of output while a read has been waiting for it
RemoteProduces ==
    /\ remote.mode # "none"
    /\ remote.pending = <<>>
    /\ At("caller", "await_read")
    /\ TopFrame("caller").n >= 1
    /\ remote' = [remote EXCEPT !.pending = <<"out">>]
    /\ UNCHANGED <<session, stack, obs, monitor, registry>>

NextExpect ==
    \/ \E d \in {ListTimeout, EnterTimeout}, reply \in BOOLEAN :
           CallerExpects(d, reply)
    \/ RemoteProduces
    \/ SettleEnds("caller")
    \/ \E k \in {"data", "timeout", "closed"} : ReadReturns("caller", k, FALSE)
    \/ \E detect \in BOOLEAN : SleepEnds("keepalive", detect, FALSE)
    \/ LinkDrops
    \/ Tick

SpecExpect == InitShell /\ [][NextExpect]_vars

\* C3 (as stated): an expect whose pattern never appears returns when its
\* timeout has passed, within the tolerance, whatever the remote does
C3_ExpectReturnsByTimeout ==
    \A i \in 1..Len(stack["caller"]) :
        stack["caller"][i].proc = "expect"
            => stack["caller"][i].n <= stack["caller"][i].d + Tolerance

(**************************** parsing a screen *****************************)
\* the screen shows one line
InitParse ==
    /\ session = NewSession(ComConfig)
    /\ remote = NoRemote
    /\ stack = [t \in Tasks |-> <<>>]
    /\ obs = NoObs
    /\ \E l \in LinesUpTo(MaxLine) : monitor = [NoMonitor EXCEPT !.screen = <<l>>]
    /\ registry = NoRegistry

Parse ==
    /\ ~monitor.parsed
    /\ monitor' = [monitor EXCEPT !.parsed = TRUE,
                                  !.messages = _parse_messages(monitor.screen)]
    /\ UNCHANGED <<session, remote, stack, obs, registry>>

NextParse == Parse

SpecParse == InitParse /\ [][NextParse]_vars

\* the first pattern, in the order of the list, that matches the line; 0: none
FirstMatch(l) ==
    IF \E k \in 1..3 : Match(k, l).ok
    THEN CHOOSE k \in 1..3 : Match(k, l).ok /\ \A j \in 1..(k - 1) : ~Match(j, l).ok
    ELSE 0

\* "[alice] hello there"
ExampleLine == <<"[", "alice", "]", " ", "alice", " ", "alice">>

\* "[TIP]alice:alice"
NoiseLine == <<"[", "TIP", "]", "alice", ":", "alice">>

\* C10: a parsed line yields at most one message; a line that no pattern
\* matches yields none; the message of a line has the stripped sender and
\* content captured by the first pattern, in the order bracket, angle,
\* colon, that matches the line; a bracketed line of the form of
\* "[alice] hello there" yields its name and its text, and one whose bracketed
\* sender is noise yields nothing although a colon pattern occurs later in it
C10_FirstMatchDecides ==
    /\ monitor.parsed =>
          LET l == Strip(monitor.screen[1])
              k == FirstMatch(l)
              res == monitor.messages
          IN  /\ Len(res) <= 1
              /\ k = 0 => res = <<>>
              /\ res # <<>> =>
                    /\ k # 0
                    /\ res[1].sender = Strip(Match(k, l).sender)
                    /\ res[1].content = Strip(Match(k, l).content)
    /\ _parse_messages(<<ExampleLine>>) =
          <<[sender |-> <<"alice">>, content |-> <<"alice", " ", "alice">>]>>
    /\ _parse_messages(<<NoiseLine>>) = <<>>

C10_Witness ==
    /\ monitor.parsed
    /\ monitor.screen = <<<<" ", "alice", ":", "TIP">>>>
    /\ monitor.messages = <<[sender |-> <<"alice">>, content |-> <<"TIP">>]>>

\* a sender that must never appear in a message: the local user name or a
\* noise label in any letter case
Forbidden(sender) ==
    \/ sender = <<"sdfbot">>
    \/ /\ Len(sender) = 1
       /\ sender[1] \in {"TIP", "tip", "System", "Strength"}

\* C11: no parsed message has the local user name or a noise label as its
\* sender, and the lines "TIP: alice", "[tip] alice", "<System> alice",
\* "Strength: alice" and "[sdfbot] alice" yield no message
C11_NoNoiseNoSelf ==
    /\ \A i \in 1..Len(monitor.messages) : ~Forbidden(monitor.messages[i].sender)
    /\ \A l \in {<<"TIP", ":", " ", "alice">>,
                  <<"[", "tip", "]", " ", "alice">>,
                  <<"<", "System", ">", " ", "alice">>,
                  <<"Strength", ":", " ", "alice">>,
                  <<"[", "sdfbot", "]", " ", "alice">>} :
          _parse_messages(<<l>>) = <<>>

C11_Witness ==
    /\ monitor.parsed
    /\ monitor.screen = <<<<"<", "TIP", ">", "alice">>>>
    /\ monitor.messages = <<>>

(*************************** monitor rounds ********************************)
\* a chat session with its monitor started and an empty screen
InitMonitor ==
    /\ session = ChatSession("lobby")
    /\ remote = [link |-> "up", mode |-> "com", room |-> "lobby",
                 pending |-> <<>>, misread |-> FALSE]
    /\ stack = [t \in Tasks |->
                   IF t = "keepalive"
                   THEN <<[Frame("_keepalive_loop", "") EXCEPT !.pc = "sleep"]>>
                   ELSE <<>>]
    /\ obs = NoObs
    /\ monitor = [NoMonitor EXCEPT !._monitoring = TRUE]
    /\ registry = NoRegistry

\* one round of _monitor_loop: it reads the output out, parses the screen and
\* dispatches the messages it has not seen
MonitorRound(out) ==
    /\ monitor._monitoring
    /\ session._connected /\ session._in_com
    /\ LET screen == Feed(monitor.screen, out)
           msgs == _parse_messages(screen)
       IN  monitor' \in Dispatch([monitor EXCEPT !.screen = screen,
                                                 !.messages = msgs], msgs)
    /\ UNCHANGED <<session, remote, stack, obs, registry>>

NextMonitor ==
    \E out \in {<<>>} \cup {<<l>> : l \in ChatLines} : MonitorRound(out)

SpecMonitor == InitMonitor /\ [][NextMonitor]_vars

\* C9 (as stated): no fingerprint is dispatched twice with fewer than the
\* cap of other distinct fingerprints first seen in between
C9_OneDispatchWithinWindow == ~monitor.early

\* C35: after each round of the monitor loop the set of fingerprints it
\* remembers holds at most the cap (100 in the code) of entries, whatever
\* the number of distinct messages it has met
C35_CacheWithinCap == Cardinality(monitor.seen_messages) <= SeenCap

\* the loop has dispatched more distinct fingerprints than the cap and
\* remembers as many as the cap
C35_Witness ==
    /\ Cardinality(DOMAIN monitor.since) > SeenCap
    /\ Cardinality(monitor.seen_messages) = SeenCap

(************************ the monitor loop as a task ***********************)
\* the pops that a run of the monitor loop may make: none while the
\* fingerprints it knows and meets fit under the cap, else at most one for
\* each message of a screen
PopsNeeded ==
    LET msgs == monitor.todo \o _parse_messages(monitor.screen)
        met == {Fingerprint(msgs[i]) : i \in 1..Len(msgs)}
    IN  IF Cardinality(monitor.seen_messages \cup met) > SeenCap
        THEN ScreenRows ELSE 0

\* the ranks that the pops of one run of the monitor loop can be given
PopChoices == [1..PopsNeeded -> 1..(SeenCap + 1)]

MonitorInputs == {[raises |-> r, pops |-> p] : r \in BOOLEAN, p \in PopChoices}

WithInputs(in) == [Bundle EXCEPT !.raises = in.raises, !.pops = in.pops]

\* the event loop runs the monitor task for the first time
MonitorStarts(in) ==
    /\ At("monitor", "created")
    /\ Apply(Run(Goto(WithInputs(in), "monitor", "loop"), "monitor"))

\* a sleep of the monitor loop ends
MonitorSleepEnds(in) ==
    /\ At("monitor", "sleep")
    /\ Apply(Run(Goto(WithInputs(in), "monitor", "after_sleep"), "monitor"))

MonitorLockAcquired(in) ==
    /\ At("monitor", "await_lock")
    /\ session._read_lock = "free"
    /\ Apply(Run(read_locked(WithInputs(in), "monitor"), "monitor"))

\* a read of the monitor loop returns; after the last one the loop extracts
MonitorReadReturns(kind, in) ==
    /\ At("monitor", "await_read")
    /\ CASE kind = "data" -> remote.pending # <<>>
         [] kind = "timeout" -> /\ remote.pending = <<>>
                                /\ remote.mode # "none"
                                /\ TopFrame("monitor").n >= ReadTimeout
         [] kind = "closed" -> remote.mode = "none" /\ remote.pending = <<>>
    /\ Apply(Run(read_returns(WithInputs(in), "monitor", kind), "monitor"))

\* the message callback, a coroutine, returns or raises
MonitorCallbackReturns(in) ==
    /\ At("monitor", "await_callback")
    /\ Apply(Run(Goto(WithInputs(in), "monitor", "after_callback"), "monitor"))

\* the task that a caller awaits has ended
TaskJoined(t) ==
    /\ At(t, "await_task")
    /\ Ended(TopFrame(t))
    /\ Apply(Run(Goto(Bundle, t, "after_task"), t))

\* a user of the chat room writes a line
ChatPrints(chunk) ==
    /\ remote.mode = "com"
    /\ remote.pending = <<>>
    /\ remote' = [remote EXCEPT !.pending = <<chunk>>]
    /\ UNCHANGED <<session, stack, obs, monitor, registry>>

\* a chat session in the lobby with a message callback registered and its
\* monitor not yet started
InitLoop ==
    /\ session = ChatSession("lobby")
    /\ remote = [link |-> "up", mode |-> "com", room |-> "lobby",
                 pending |-> <<>>, misread |-> FALSE]
    /\ stack = [t \in Tasks |->
                   IF t = "keepalive"
                   THEN <<[Frame("_keepalive_loop", "") EXCEPT !.pc = "sleep"]>>
                   ELSE <<>>]
    /\ obs = NoObs
    /\ \E cb \in {"sync", "async"} :
          monitor = [NoMonitor EXCEPT !._message_callback = cb]
    /\ registry = NoRegistry

LoopOps == {<<"start_monitor", "">>, <<"stop_monitor", "">>,
            <<"exit_com", "">>, <<"disconnect", "">>}

Others == {"caller", "keepalive"}

\* the monitor loop beside a caller that starts and stops it, leaves the chat
\* and disconnects; the remote honours every command
NextLoop ==
    \/ \E op \in LoopOps : CallerCalls(op, TRUE)
    \/ WaitClosedCompletes("caller")
    \/ \E t \in Others : SleepEnds(t, FALSE, TRUE)
    \/ SettleEnds("caller")
    \/ LockAcquired("caller")
    \/ \E k \in {"data", "timeout", "closed"} : ReadReturns("caller", k, TRUE)
    \/ \E t \in {"keepalive", "monitor"} : CancelDelivered(t)
    \/ TaskJoined("caller")
    \/ \E in \in MonitorInputs : MonitorStarts(in)
    \/ \E in \in MonitorInputs : MonitorSleepEnds(in)
    \/ \E in \in MonitorInputs : MonitorLockAcquired(in)
    \/ \E k \in {"data", "timeout", "closed"}, in \in MonitorInputs :
           MonitorReadReturns(k, in)
    \/ \E in \in MonitorInputs : MonitorCallbackReturns(in)
    \/ \E c \in ChatChunks : ChatPrints(c)
    \/ Tick

SpecLoop == InitLoop /\ [][NextLoop]_vars

\* the monitor task sleeps in its back-off
BackingOff ==
    /\ stack["monitor"] # <<>>
    /\ TopFrame("monitor").pc = "sleep"
    /\ TopFrame("monitor").arg = "backoff"

\* C12 (as stated): the monitor loop extracts only at moments at which
\* monitoring is enabled and the session is connected and in chat mode
C12_ExtractsOnlyWhileActive == ~monitor.stale

\* C12 (amended): the monitor loop extracts only in a tick whose check, made
\* before the read of that tick, found monitoring enabled and the session
\* connected and in chat mode; a tick whose check found otherwise backs off,
\* and the step that takes the loop into the back-off reads nothing, extracts
\* nothing and dispatches nothing
C12_ExtractsOnlyInCheckedTick ==
    [][/\ ~monitor'.unguarded
       /\ HasFrame("monitor", "_read_output")' => monitor'.checked = AllTrue
       /\ BackingOff' => monitor'.checked # AllTrue
       /\ (BackingOff' /\ stack'["monitor"] # stack["monitor"]) =>
            /\ monitor'.screen = monitor.screen
            /\ monitor'.todo = monitor.todo
            /\ monitor'.seen_messages = monitor.seen_messages
            /\ monitor'.parsed = monitor.parsed
            /\ monitor'.later = monitor.later
            /\ session'._read_lock = session._read_lock
            /\ session'._expect_buffer = session._expect_buffer]_vars

C12_Witness ==
    /\ monitor.parsed
    /\ monitor.seen_messages # {}
    /\ BackingOff
    /\ ~monitor.checked.i

\* C13: when the message callback raises, the monitor task goes on: while
\* monitoring stays enabled the task is alive inside _monitor_loop, and each
\* message with a new fingerprint that the loop meets afterwards is
\* dispatched
C13_CallbackErrorCaught ==
    [][/\ (monitor'.raised /\ monitor'._monitoring) =>
            /\ monitor'._monitor_task = "running"
            /\ HasFrame("monitor", "_monitor_loop")'
       /\ (monitor.raised /\ monitor'.seen_messages \ monitor.seen_messages # {})
            => monitor'.later]_vars

C13_Witness ==
    /\ monitor.raised
    /\ monitor.later
    /\ monitor._monitor_task = "running"

\* C17 (as stated): when disconnect() returns, no background task of the
\* session is still running uncancelled
C17_NoTaskAfterDisconnect ==
    [][(HasFrame("caller", "disconnect") /\ stack'["caller"] = <<>>) =>
           /\ session'._keepalive_task # "running"
           /\ session'._idle_check_task # "running"
           /\ monitor'._monitor_task # "running"]_vars

(***************************** two callers *********************************)
Callers == {"caller", "caller2"}

\* task t awaits one public method of the session
Calls(t, op, reply) ==
    /\ stack[t] = <<>>
    /\ Apply(Run([Bundle EXCEPT !.stack[t] = <<Frame(op[1], op[2])>>,
                                !.reply = reply], t))

\* a chat session in the lobby whose sends are observed
InitCallers ==
    /\ session = ChatSession("lobby")
    /\ remote = [link |-> "up", mode |-> "com", room |-> "lobby",
                 pending |-> <<>>, misread |-> FALSE]
    /\ stack = [t \in Tasks |->
                   IF t = "keepalive"
                   THEN <<[Frame("_keepalive_loop", "") EXCEPT !.pc = "sleep"]>>
                   ELSE <<>>]
    /\ obs = [NoObs EXCEPT !.tracing = TRUE]
    /\ monitor = NoMonitor
    /\ registry = NoRegistry

\* one more call while the observations have room for its send
BoundedCall(t, op, reply) ==
    /\ Len(obs.issued) < MaxSends
    /\ Calls(t, op, reply)

ListOps == {<<"get_online_users", "">>, <<"list_rooms", "">>}

\* two tasks list the users and the rooms of one chat session at the same
\* time
NextCallers ==
    \/ \E t \in Callers, op \in ListOps, reply \in BOOLEAN :
           BoundedCall(t, op, reply)
    \/ SleepEnds("keepalive", FALSE, FALSE)
    \/ \E t \in Callers : SettleEnds(t)
    \/ \E t \in Callers : LockAcquired(t)
    \/ \E t \in Callers, k \in {"data", "timeout"} : ReadReturns(t, k, FALSE)
    \/ Tick

SpecCallers == InitCallers /\ [][NextCallers]_vars

SendOps == {<<"send_message", "">>, <<"send_private_message", "">>}

\* two tasks send messages through one chat session at the same time
NextSends ==
    \/ \E t \in Callers, op \in SendOps, reply \in BOOLEAN :
           BoundedCall(t, op, reply)
    \/ SleepEnds("keepalive", FALSE, FALSE)
    \/ \E t \in Callers : SettleEnds(t)
    \/ Tick

SpecSends == InitCallers /\ [][NextSends]_vars

\* C26 (as stated): while a task holds the read lock in a drain that is in
\* progress, no step of another task clears the expect buffer
C26_NoClearDuringDrain ==
    [][~(/\ session._read_lock # "free"
         /\ session'._read_lock = session._read_lock
         /\ stack'[session._read_lock] = stack[session._read_lock]
         /\ session._expect_buffer # <<>>
         /\ session'._expect_buffer = <<>>)]_vars

\* C27 (as stated): at most one send, from its write to the end of its
\* settle delay, is in flight on the session
C27_OneSendInFlight ==
    \A t, u \in Tasks : (HasFrame(t, "send") /\ HasFrame(u, "send")) => t = u

\* C14 (as stated): the output of every send_and_expect is the remote output
\* that reached the expect buffer during that call
C14_OutputIsOwnOutput == ~obs.mismatch

\* a embeds in b: the elements of a occur in b in the same order
RECURSIVE Embeds(_, _)
Embeds(a, b) ==
    IF a = <<>> THEN TRUE
    ELSE IF b = <<>> THEN FALSE
    ELSE IF Head(a) = Head(b) THEN Embeds(Tail(a), Tail(b))
    ELSE Embeds(a, Tail(b))

\* C16: the lines reach the input of the remote in the order in which the
\* calls of send were issued, whichever caller issued them
C16_SendsArriveInOrder == Embeds(obs.arrived, obs.issued)

C16_Witness ==
    /\ Len(obs.arrived) >= 2
    /\ obs.arrived[1][1] # obs.arrived[2][1]
    /\ At("caller", "settle")
    /\ At("caller2", "settle")

(************************ sends of a plain session *************************)
\* a new plain session without a reconnect callback
InitSend ==
    /\ \E c \in {k \in SshConfigs : k.cb = "none"} : session = NewSession(c)
    /\ remote = NoRemote
    /\ stack = [t \in Tasks |-> <<>>]
    /\ obs = [NoObs EXCEPT !.tracing = TRUE]
    /\ monitor = NoMonitor
    /\ registry = NoRegistry

\* a plain session as in Spec, with its sends observed
NextSend ==
    \/ \E op \in SshOps \ {<<"send", "ls">>} : CallerCalls(op, FALSE)
    \/ \E reply \in BOOLEAN : BoundedCall("caller", <<"send", "ls">>, reply)
    \/ \E t \in Background : TaskStarts(t)
    \/ \E t \in Tasks, o \in {"ok", "timeout", "error"} : ConnectCompletes(t, o)
    \/ \E t \in Tasks : WaitClosedCompletes(t)
    \/ \E t \in Tasks, ok \in BOOLEAN : CreateProcessCompletes(t, ok)
    \/ \E t \in Tasks, detect, reply \in BOOLEAN : SleepEnds(t, detect, reply)
    \/ \E t \in Tasks : SettleEnds(t)
    \/ \E t \in Tasks, k \in {"data", "timeout", "closed"}, reply \in BOOLEAN :
           ReadReturns(t, k, reply)
    \/ CallbackReturns("idle_check")
    \/ \E t \in Background : CancelDelivered(t)
    \/ LinkDrops
    \/ Tick

SpecSend == InitSend /\ [][NextSend]_vars

\* no shell has been invoked, or the session has been disconnected by
\* disconnect() or by a detected loss
WriterUnavailable == ~session._writer \/ ~session._connected

\* C15: a send that is called while the writer is unavailable returns False
\* at once and nothing is written to the remote
C15_SendRefusedWithoutWriter ==
    [][(Len(obs'.issued) > Len(obs.issued) /\ WriterUnavailable) =>
           /\ obs'.refused = obs.refused + 1
           /\ obs'.arrived = obs.arrived
           /\ remote' = remote
           /\ stack'["caller"] = <<>>]_vars

\* a send was refused after a detected loss, with the writer of the lost
\* shell still in place
C15_Witness ==
    /\ obs.refused > 0
    /\ obs.losses > 0
    /\ session._writer
    /\ ~session._connected
    /\ Len(obs.arrived) > 0

(**************************** the registry **********************************)
\* cls._instances[connection_id] = instance
register_instance(reg, i) == [reg EXCEPT !._instances = i]

\* del cls._instances[connection_id], whichever instance the entry designates
remove_instance(reg) == [reg EXCEPT !._instances = 0]

\* session object i has been created
Exists(i) == i <= registry.made

SessionUntouched == UNCHANGED <<session, remote, stack, obs, monitor>>

\* create_ssh_connection(config, connection_id) for an id without an entry in
\* _connections: a new AsyncSSHConnection
create_ssh_connection ==
    /\ registry._connections = 0
    /\ registry.made < MaxInstances
    /\ registry' = [registry EXCEPT !.made = @ + 1, !._connections = @ + 1]
    /\ SessionUntouched

\* create_com_connection(config) for a host without an entry in
\* _com_connections: a new COMChatConnection
create_com_connection ==
    /\ registry._com_connections = 0
    /\ registry.made < MaxInstances
    /\ registry' = [registry EXCEPT !.made = @ + 1, !._com_connections = @ + 1]
    /\ SessionUntouched

\* i.connect() of a session that is not connected, up to asyncssh.connect
InstanceConnects(i) ==
    /\ Exists(i)
    /\ registry.inst[i].pc = "idle"
    /\ ~registry.inst[i]._connected
    /\ registry' = [registry EXCEPT !.inst[i].pc = "await_connect"]
    /\ SessionUntouched

\* asyncssh.connect of i completes: i is connected and registers itself
InstanceConnectCompletes(i, ok) ==
    /\ registry.inst[i].pc = "await_connect"
    /\ registry' =
         IF ok
         THEN register_instance(
                  [registry EXCEPT !.inst[i] = [_conn |-> TRUE,
                                                _connected |-> TRUE,
                                                pc |-> "idle"]], i)
         ELSE [registry EXCEPT !.inst[i].pc = "idle",
                               !.inst[i]._connected = FALSE]
    /\ SessionUntouched

\* the end of i.disconnect(): the flags are cleared, the entry of the id is
\* removed, and a close_all that waited for i goes on
InstanceDisconnected(reg, i) ==
    LET r1 == remove_instance([reg EXCEPT !.inst[i] = [_conn |-> FALSE,
                                                       _connected |-> FALSE,
                                                       pc |-> "idle"]])
    IN  IF r1.closing # <<>> /\ Head(r1.closing) = i
        THEN [r1 EXCEPT !.closing = Tail(@),
                        !._connections = IF @ = i THEN 0 ELSE @,
                        !._com_connections = IF @ = i THEN 0 ELSE @]
        ELSE r1

\* i.disconnect(), up to the await of wait_closed (or to its end without _conn)
DisconnectStarts(reg, i) ==
    IF reg.inst[i]._conn
    THEN [reg EXCEPT !.inst[i].pc = "await_wait_closed"]
    ELSE InstanceDisconnected(reg, i)

\* a holder of session i calls i.disconnect()
InstanceDisconnects(i) ==
    /\ Exists(i)
    /\ registry.inst[i].pc = "idle"
    /\ registry.closing = <<>>
    /\ registry' = DisconnectStarts(registry, i)
    /\ SessionUntouched

InstanceWaitClosedCompletes(i) ==
    /\ registry.inst[i].pc = "await_wait_closed"
    /\ registry' = InstanceDisconnected(registry, i)
    /\ SessionUntouched

\* the keepalive check of i detects a loss: _handle_disconnect
InstanceLosesLink(i) ==
    /\ registry.inst[i]._connected
    /\ registry.inst[i].pc = "idle"
    /\ registry' = [registry EXCEPT !.inst[i]._connected = FALSE]
    /\ SessionUntouched

\* close_all(): the sessions of the two dictionaries, to be disconnected one
\* after the other
close_all ==
    /\ registry.closing = <<>>
    /\ registry._connections # 0 \/ registry._com_connections # 0
    /\ registry' =
         [registry EXCEPT !.closing =
             (IF registry._connections # 0 THEN <<registry._connections>>
                                           ELSE <<>>)
             \o (IF registry._com_connections # 0
                 THEN <<registry._com_connections>> ELSE <<>>)]
    /\ SessionUntouched

\* close_all() awaits the disconnect() of the next session
CloseAllDisconnects ==
    /\ registry.closing # <<>>
    /\ registry.inst[Head(registry.closing)].pc = "idle"
    /\ registry' = DisconnectStarts(registry, Head(registry.closing))
    /\ SessionUntouched

InitRegistry ==
    /\ session = NewSession(ComConfig)
    /\ remote = NoRemote
    /\ stack = [t \in Tasks |-> <<>>]
    /\ obs = NoObs
    /\ monitor = NoMonitor
    /\ registry = NoRegistry

\* the sessions of one connection id under the manager and their holders
NextRegistry ==
    \/ create_ssh_connection
    \/ create_com_connection
    \/ \E i \in Instances : InstanceConnects(i)
    \/ \E i \in Instances, ok \in BOOLEAN : InstanceConnectCompletes(i, ok)
    \/ \E i \in Instances : InstanceDisconnects(i)
    \/ \E i \in Instances : InstanceWaitClosedCompletes(i)
    \/ \E i \in Instances : InstanceLosesLink(i)
    \/ close_all
    \/ CloseAllDisconnects

SpecRegistry == InitRegistry /\ [][NextRegistry]_vars

\* C18 (as stated): two session objects of one connection id are never
\* connected together, and the entry of the id designates the connected one
C18_OneConnectedInstancePerId ==
    /\ \A i, j \in Instances :
          (registry.inst[i]._connected /\ registry.inst[j]._connected) => i = j
    /\ \A i \in Instances :
          registry.inst[i]._connected => registry._instances = i

(************************** the screen emulator ****************************)
\* the characters of the claim: plain printable characters and the newline
PlainChars == {"a", "b", " ", "\n"}

\* pyte.Screen(terminal_width, terminal_height): a grid of blanks with the
\* cursor at the origin; its modes are DECAWM and DECTCEM, LNM is not set
NewScreen ==
    [buffer |-> [y \in 1..ScreenRows |-> [x \in 1..ScreenCols |-> " "]],
     x |-> 0, y |-> 0]

carriage_return(sc) == [sc EXCEPT !.x = 0]

\* the cursor moves one row down; at the bottom row the grid scrolls up
index(sc) ==
    IF sc.y = ScreenRows - 1
    THEN [sc EXCEPT !.buffer =
             [y \in 1..ScreenRows |->
                 IF y < ScreenRows THEN sc.buffer[y + 1]
                                   ELSE [x \in 1..ScreenCols |-> " "]]]
    ELSE [sc EXCEPT !.y = @ + 1]

\* LF: an index, and a carriage return only in mode LNM, which the session
\* never sets on its screen
linefeed(sc) == index(sc)

\* a printable character: at the right margin the cursor first wraps to the
\* next row (DECAWM), then the character is put at the cursor
draw(sc, ch) ==
    LET s1 == IF sc.x = ScreenCols THEN linefeed(carriage_return(sc)) ELSE sc
    IN  [s1 EXCEPT !.buffer[s1.y + 1][s1.x + 1] = ch, !.x = @ + 1]

\* self._stream.feed(decoded), one character
feed(sc, ch) == IF ch = "\n" THEN linefeed(sc) ELSE draw(sc, ch)

RECURSIVE rstrip(_)
rstrip(row) ==
    IF row # <<>> /\ row[Len(row)] = " "
    THEN rstrip(SubSeq(row, 1, Len(row) - 1))
    ELSE row

\* get_screen_text(): the rows of the grid without their trailing blanks
get_screen_text(sc) == [y \in 1..ScreenRows |-> rstrip(sc.buffer[y])]

\* the lines of an input, split at its newlines
RECURSIVE InputLines(_)
InputLines(input) ==
    IF input = <<>> THEN <<<<>>>>
    ELSE LET rest == InputLines(Tail(input))
         IN  IF Head(input) = "\n" THEN <<<<>>>> \o rest
             ELSE <<<<Head(input)>> \o Head(rest)>> \o Tail(rest)

\* the input fits the grid
Fits(input) ==
    /\ Len(InputLines(input)) <= ScreenRows
    /\ \A i \in 1..Len(InputLines(input)) :
          Len(InputLines(input)[i]) <= ScreenCols

\* a shell has been invoked: a new screen, nothing fed yet
InitScreen ==
    /\ session = NewSession(ComConfig)
    /\ remote = NoRemote
    /\ stack = [t \in Tasks |-> <<>>]
    /\ obs = NoObs
    /\ monitor = [NoMonitor EXCEPT !.pyte = NewScreen]
    /\ registry = NoRegistry

\* _read_output feeds the next character of the remote output to the stream
StreamFeeds(ch) ==
    /\ Len(monitor.fed) < MaxFeed
    /\ monitor' = [monitor EXCEPT !.fed = Append(@, ch),
                                  !.pyte = feed(@, ch)]
    /\ UNCHANGED <<session, remote, stack, obs, registry>>

NextScreen == \E ch \in PlainChars : StreamFeeds(ch)

SpecScreen == InitScreen /\ [][NextScreen]_vars

\* C24 (as stated): for an input of plain characters and newlines that fits
\* the grid, the rendered rows are the lines of the input without their
\* trailing blanks, one row per line from column 0, and the other rows empty
C24_RendersLinesVerbatim ==
    Fits(monitor.fed) =>
        get_screen_text(monitor.pyte) =
            [y \in 1..ScreenRows |->
                IF y <= Len(InputLines(monitor.fed))
                THEN rstrip(InputLines(monitor.fed)[y]) ELSE <<>>]


(********************* starting and stopping the monitor *******************)
MonitorOps == {<<"start_monitor", "">>, <<"stop_monitor", "">>}

\* CancelledError reaches a cancelled monitor task that a new one has
\* replaced: it ends, releases the lock it holds and wakes those that await it
SupersededEnds ==
    /\ monitor.superseded
    /\ monitor' = [monitor EXCEPT !.superseded = FALSE]
    /\ session' = [session EXCEPT
                     !._read_lock = IF @ = "superseded" THEN "free" ELSE @]
    /\ stack' = [u \in Tasks |->
                    [i \in 1..Len(stack[u]) |->
                        IF stack[u][i].arg = "superseded"
                        THEN [stack[u][i] EXCEPT !.arg = "ended"]
                        ELSE stack[u][i]]]
    /\ UNCHANGED <<remote, obs, registry>>

\* two tasks start and stop the monitor of one chat session at the same
\* time, while the room talks
NextStartStop ==
    \/ \E t \in Callers, op \in MonitorOps : Calls(t, op, FALSE)
    \/ CancelDelivered("monitor")
    \/ SupersededEnds
    \/ \E t \in Callers : TaskJoined(t)
    \/ \E in \in MonitorInputs : MonitorStarts(in)
    \/ \E in \in MonitorInputs : MonitorSleepEnds(in)
    \/ \E in \in MonitorInputs : MonitorLockAcquired(in)
    \/ \E k \in {"data", "timeout"}, in \in MonitorInputs :
           MonitorReadReturns(k, in)
    \/ \E in \in MonitorInputs : MonitorCallbackReturns(in)
    \/ \E c \in ChatChunks : ChatPrints(c)
    \/ Tick

SpecStartStop == InitLoop /\ [][NextStartStop]_vars

\* a step in which the monitor loop extracts or works through a message
LoopWorks ==
    /\ monitor'._monitor_task = monitor._monitor_task
    /\ \/ monitor'.todo # monitor.todo
       \/ monitor'.seen_messages # monitor.seen_messages

\* C31: at most one monitor loop of a chat session exists with no
\* cancellation pending, whatever the interleaving of start_monitor and
\* stop_monitor calls, and no message is extracted or dispatched by a loop
\* while monitoring is disabled
C31_OneMonitorLoop ==
    /\ [](monitor.loops <= 1)
    /\ [][LoopWorks => monitor._monitoring]_vars

\* a new loop has run its first steps while the loop before it, stopped by
\* a stop_monitor that still awaits it, has yet to end
C31_Witness ==
    /\ monitor.superseded
    /\ monitor.loops = 1
    /\ At("monitor", "await_read")
    /\ \E t \in Callers :
          /\ At(t, "await_task")
          /\ TopFrame(t).arg = "superseded"


(************************* overlapping connects ****************************)
ConnectOps == {<<"connect", "">>, <<"disconnect", "">>}

\* two tasks connect and disconnect one plain session at the same time,
\* beside its loops and the network
NextConnects ==
    \/ \E t \in Callers, op \in ConnectOps : Calls(t, op, FALSE)
    \/ \E t \in Background : TaskStarts(t)
    \/ \E t \in Callers, o \in {"ok", "timeout", "error"} :
           ConnectCompletes(t, o)
    \/ \E t \in Callers : WaitClosedCompletes(t)
    \/ \E t \in Background, detect \in BOOLEAN : SleepEnds(t, detect, FALSE)
    \/ \E t \in Tasks : CallbackReturns(t)
    \/ \E t \in Background : CancelDelivered(t)
    \/ LinkDrops
    \/ Tick

SpecConnects == Init /\ [][NextConnects]_vars

\* a step in which asyncssh.connect has established a transport for the
\* session: connect() counts it
Establishes ==
    session'._state.reconnect_count = session._state.reconnect_count + 1

\* C32: no transport is established for a session while the session holds an
\* open transport, so that at most one is established and left unclosed,
\* whatever the interleaving of the connect() calls
C32_OneOpenTransport ==
    [][Establishes => ~(session._conn /\ remote.link = "up")]_vars


\* a step in which the connect() that t awaits returns without a transport
ConnectFails(t) ==
    /\ stack[t] # <<>>
    /\ TopFrame(t).proc = "connect"
    /\ TopFrame(t).pc = "await_connect"
    /\ stack'[t] = <<>>
    /\ ~Establishes

\* C33: a connect() that fails, by timeout or by a connection error, leaves
\* the session as it was: its connection state, its counter and last_room,
\* its registration and its loops
C33_FailedConnectChangesNothing ==
    [][\A t \in Callers :
          ConnectFails(t) => /\ session' = session
                             /\ registry' = registry
                             /\ \A b \in Background : stack'[b] = stack[b]]_vars


(**************************** the screen of a reconnect *********************)
\* a chat session in the lobby whose room talks while the caller joins the
\* lobby again and again, the link drops once and the session reconnects;
\* the remote honours every command
NextRedraw ==
    \/ obs.reconnect # "running" /\ CallerCalls(<<"switch_room", "lobby">>, TRUE)
    \/ \E t \in Tasks : ConnectCompletes(t, "ok")
    \/ \E t \in Tasks : CreateProcessCompletes(t, TRUE)
    \/ \E t \in Tasks, detect \in BOOLEAN : SleepEnds(t, detect, TRUE)
    \/ \E t \in Tasks : SettleEnds(t)
    \/ \E t \in Tasks : LockAcquired(t)
    \/ \E t \in Tasks, k \in {"data", "timeout", "closed"} :
           ReadReturns(t, k, TRUE)
    \/ ChatPrints("alice: alice")
    \/ obs.losses = 0 /\ LinkDrops
    \/ Tick

SpecRedraw == InitLoop /\ [][NextRedraw]_vars

\* C34: the screen holds the lines of the chunks appended to the expect
\* buffer since the screen was created, in their order, and after a
\* successful reconnect it holds no line that was on the screen when the
\* connection was lost
C34_ScreenIsDrainedOutput ==
    /\ monitor.screen = monitor.drained
    /\ obs.reconnect = "ok" => ~monitor.carried

\* a reconnect has succeeded after a loss that found lines on the screen, and
\* the room has talked since
C34_Witness ==
    /\ obs.reconnect = "ok"
    /\ monitor.lost # <<>>
    /\ monitor.screen # <<>>


(***************************** SDFConnection *******************************)
\* The connection of src/sdf/connection.py.  session holds its fields, stack
\* the position of each task: the auto-reconnect loops that the calls of
\* start_auto_reconnect create, a caller, and the idle monitors that the
\* connects create.  _reconnect_task: the number of the loop task it names,
\* 0 for None.  cancel: a cancellation of the task is pending.
\* obs.stopped_by: who cancelled the loop that _reconnect_task named
MaxStarts == 2

LoopTasks == {<<"loop", k>> : k \in 1..MaxStarts}

CallerTask == <<"caller", 0>>

IdleMonitors == {<<"idle", k>> : k \in 1..MaxConnects}

SdfTasks == LoopTasks \cup {CallerTask} \cup IdleMonitors

SdfInit ==
    /\ session = [_conn |-> FALSE, _connected |-> FALSE, _connecting |-> FALSE,
                  _reconnect_task |-> 0, _on_reconnect |-> FALSE]
    /\ stack = [t \in SdfTasks |->
                   [pc |-> IF t = CallerTask THEN "idle" ELSE "none",
                    cancel |-> FALSE]]
    /\ obs = [started |-> 0, stopped_by |-> "none"]
    /\ remote = NoRemote
    /\ monitor = NoMonitor
    /\ registry = NoRegistry

SdfApply(M) ==
    /\ session' = M.session
    /\ stack' = M.stack
    /\ obs' = M.obs
    /\ UNCHANGED <<remote, monitor, registry>>

SdfBundle == [session |-> session, stack |-> stack, obs |-> obs]

\* where task t goes on when the coroutine it awaited has returned
SdfResume(t) ==
    CASE t = CallerTask -> "idle"
      [] t \in LoopTasks -> "sleep"
      [] OTHER -> "none"

\* _stop_reconnect(), called by task t: the loop task is cancelled
_stop_reconnect(M, t) ==
    LET task == <<"loop", M.session._reconnect_task>>
    IN  IF M.session._reconnect_task # 0
        THEN [M EXCEPT !.session._reconnect_task = 0,
                       !.stack[task].cancel = M.stack[task].pc # "none",
                       !.obs.stopped_by =
                           IF t \in LoopTasks THEN "loop" ELSE "other"]
        ELSE M


\* disconnect(), from the return of wait_closed to the end; t goes on at pc
sdf_disconnect_finish(M, t, pc) ==
    [M EXCEPT !.session._connected = FALSE,
              !.session._conn = FALSE,
              !.stack[t].pc = pc]

\* disconnect(), up to the await of wait_closed; without _conn, to the end
sdf_disconnect(M, t, pc) ==
    LET M1 == _stop_reconnect(M, t)
    IN  IF M1.session._conn
        THEN [M1 EXCEPT !.stack[t].pc = "await_wait_closed"]
        ELSE sdf_disconnect_finish(M1, t, pc)

\* what follows disconnect() in task t: the sleep of reconnect() in the loop,
\* the end of the call in the caller, the end of an idle monitor (no
\* _on_disconnect is registered)
AfterDisconnect(t) == IF t \in LoopTasks THEN "delay" ELSE SdfResume(t)

\* connect(), up to the await of asyncssh.connect
sdf_connect(M, t) ==
    IF M.session._connecting
    THEN [M EXCEPT !.stack[t].pc = SdfResume(t)]
    ELSE [M EXCEPT !.session._connecting = TRUE,
                   !.stack[t].pc = "await_connect"]

\* _start_idle_monitor(): one more idle monitor task
_start_idle_monitor(M) ==
    LET k == CHOOSE i \in IdleMonitors : M.stack[i].pc = "none"
    IN  [M EXCEPT !.stack[k] = [pc |-> "sleep", cancel |-> FALSE]]

\* connect(), from the completion of asyncssh.connect to its return, and
\* reconnect() after it in the loop
sdf_connect_completes(M, t, ok) ==
    LET M1 == [M EXCEPT !.session._connecting = FALSE]
    IN  IF ok
        THEN _start_idle_monitor(
                 [M1 EXCEPT !.session._conn = TRUE,
                            !.session._connected = TRUE,
                            !.stack[t].pc =
                                IF t \in LoopTasks /\ M.session._on_reconnect
                                THEN "await_callback" ELSE SdfResume(t)])
        ELSE [M1 EXCEPT !.stack[t].pc = SdfResume(t)]

SdfAt(t, pc) == stack[t].pc = pc /\ ~stack[t].cancel

\* the caller awaits connect() or disconnect(), or calls
\* start_auto_reconnect(), with or without a callback
SdfCallerConnects ==
    /\ SdfAt(CallerTask, "idle")
    /\ SdfApply(sdf_connect(SdfBundle, CallerTask))

SdfCallerDisconnects ==
    /\ SdfAt(CallerTask, "idle")
    /\ SdfApply(sdf_disconnect(SdfBundle, CallerTask, "idle"))

start_auto_reconnect(cb) ==
    /\ SdfAt(CallerTask, "idle")
    /\ obs.started < MaxStarts
    /\ LET k == obs.started + 1
       IN  SdfApply([SdfBundle EXCEPT !.session._on_reconnect = cb,
                                      !.session._reconnect_task = k,
                                      !.stack[<<"loop", k>>].pc = "sleep",
                                      !.obs.started = k,
                                      !.obs.stopped_by = "none"])

\* asyncssh.connect completes or raises
SdfConnectCompletes(t, ok) ==
    /\ SdfAt(t, "await_connect")
    /\ ok => \E i \in IdleMonitors : stack[i].pc = "none"
    /\ SdfApply(sdf_connect_completes(SdfBundle, t, ok))

\* wait_closed returns
SdfWaitClosedCompletes(t) ==
    /\ stack[t].pc = "await_wait_closed"
    /\ SdfApply(sdf_disconnect_finish(SdfBundle, t, AfterDisconnect(t)))

\* the sleep of the loop ends: _auto_reconnect_loop calls reconnect(), which
\* disconnects first, when the connection is neither connected nor connecting
LoopSleepEnds(l) ==
    /\ SdfAt(l, "sleep")
    /\ ~session._connected /\ ~session._connecting
    /\ SdfApply(sdf_disconnect(SdfBundle, l, "delay"))

\* the sleep of reconnect() ends: connect()
ReconnectDelayEnds(l) ==
    /\ SdfAt(l, "delay")
    /\ SdfApply(sdf_connect(SdfBundle, l))

\* the _on_reconnect callback returns
OnReconnectReturns(l) ==
    /\ SdfAt(l, "await_callback")
    /\ SdfApply([SdfBundle EXCEPT !.stack[l].pc = "sleep"])

\* CancelledError reaches a loop task at the await it is suspended at, or
\* at its next one if it has cancelled itself: the bare except around
\* wait_closed swallows it, the finally of connect() clears _connecting, and
\* anywhere else the task ends
LoopCancelled(l) ==
    /\ stack[l].cancel
    /\ LET pc == stack[l].pc
           M == [SdfBundle EXCEPT !.stack[l].cancel = FALSE]
       IN  SdfApply(
             CASE pc = "await_wait_closed" ->
                    sdf_disconnect_finish(M, l, "delay")
               [] pc = "await_connect" ->
                    [M EXCEPT !.session._connecting = FALSE,
                              !.stack[l].pc = "none"]
               [] OTHER -> [M EXCEPT !.stack[l].pc = "none"])

\* the sleep of an idle monitor ends: idle for longer than idle_timeout
\* (expired), it disconnects and ends; otherwise it goes on while connected
IdleMonitorWakes(k, expired) ==
    /\ SdfAt(k, "sleep")
    /\ expired \/ ~session._connected
    /\ SdfApply(IF expired THEN sdf_disconnect(SdfBundle, k, "none")
                           ELSE [SdfBundle EXCEPT !.stack[k].pc = "none"])

\* what the event loop does by itself: timers expire, connects and closes
\* complete, cancellations are delivered
SdfProgress ==
    \/ \E t \in SdfTasks, ok \in BOOLEAN : SdfConnectCompletes(t, ok)
    \/ \E t \in SdfTasks : SdfWaitClosedCompletes(t)
    \/ \E l \in LoopTasks : LoopSleepEnds(l)
    \/ \E l \in LoopTasks : ReconnectDelayEnds(l)
    \/ \E l \in LoopTasks : OnReconnectReturns(l)
    \/ \E l \in LoopTasks : LoopCancelled(l)
    \/ \E k \in IdleMonitors : IdleMonitorWakes(k, FALSE)

SdfNext ==
    \/ SdfCallerConnects
    \/ SdfCallerDisconnects
    \/ \E cb \in BOOLEAN : start_auto_reconnect(cb)
    \/ \E k \in IdleMonitors : IdleMonitorWakes(k, TRUE)
    \/ SdfProgress

SpecSdf == SdfInit /\ [][SdfNext]_vars

\* the event loop lets no timer, completion or cancellation wait for ever
SpecSdfFair == SpecSdf /\ WF_vars(SdfProgress)

\* C36: the auto-reconnect loop is never stopped by a reconnect attempt of
\* a loop, and as long as no disconnect() of another task has stopped it, a
\* connection that is not connected leads to a connect attempt of a loop or
\* to a connected connection
C36_LoopKeepsReconnecting ==
    /\ [](obs.stopped_by # "loop")
    /\ (obs.started > 0 /\ obs.stopped_by = "none" /\ ~session._connected)
           ~> \/ session._connected
              \/ obs.stopped_by = "other"
              \/ \E l \in LoopTasks : stack[l].pc = "await_connect"


(****************************** MessageQueue *******************************)
\* The queue of src/core/message_queue.py.  session holds _queue (the heap,
\* as the sequence of the ids pushed and not yet popped) and _processing (the
\* ids of the processing map); obs holds, for each message, its status, its
\* retry_count and handed, the number of times get() has handed it out;
\* stack holds the message that _process_loop has given to its handler
QueueMaxRetries == 2

Messages == {"m1", "m2"}

\* MessagePriority of the messages: HIGH for m1, NORMAL for m2
Priority(m) == IF m = "m1" THEN 1 ELSE 2

QueueInit ==
    /\ session = [_queue |-> <<>>, _processing |-> {}]
    /\ obs = [m \in Messages |->
                 [status |-> "none", retry_count |-> 0, handed |-> 0]]
    /\ stack = [handling |-> "none"]
    /\ remote = NoRemote
    /\ monitor = NoMonitor
    /\ registry = NoRegistry

\* heapq.heappop: the position of a message of the least priority
Least(q) ==
    CHOOSE i \in 1..Len(q) : \A j \in 1..Len(q) : Priority(q[i]) <= Priority(q[j])

Without(q, i) == SubSeq(q, 1, i - 1) \o SubSeq(q, i + 1, Len(q))

\* put(): a new message is pushed
put(m) ==
    /\ obs[m].status = "none"
    /\ session' = [session EXCEPT !._queue = Append(@, m)]
    /\ obs' = [obs EXCEPT ![m].status = "pending"]
    /\ UNCHANGED <<stack, remote, monitor, registry>>

\* get(), with the queue not empty: the least message moves to the
\* processing map
get(M) ==
    LET i == Least(M.session._queue)
        m == M.session._queue[i]
    IN  [M EXCEPT !.session._queue = Without(@, i),
                  !.session._processing = @ \cup {m},
                  !.obs[m].status = "processing",
                  !.obs[m].handed = @ + 1]

\* a failed message is pushed again one time more than max_retries allows
MayRetry_OnceMore(msg) == msg.retry_count <= QueueMaxRetries

\* if message.retry_count < message.max_retries
MayRetry(msg) == msg.retry_count < QueueMaxRetries

\* ack(message_id, success)
ack(M, m, success) ==
    IF m \notin M.session._processing THEN M
    ELSE LET M1 == [M EXCEPT !.session._processing = @ \ {m}]
         IN  CASE success -> [M1 EXCEPT !.obs[m].status = "completed"]
               [] ~success /\ MayRetry(M.obs[m]) ->
                    [M1 EXCEPT !.obs[m].status = "retry",
                               !.obs[m].retry_count = @ + 1,
                               !.session._queue = Append(@, m)]
               [] OTHER -> [M1 EXCEPT !.obs[m].status = "failed"]

QueueBundle == [session |-> session, obs |-> obs, stack |-> stack]

QueueApply(M) ==
    /\ session' = M.session
    /\ obs' = M.obs
    /\ stack' = M.stack
    /\ UNCHANGED <<remote, monitor, registry>>

\* _process_loop: get() returns a message; with a handler registered for its
\* target the loop awaits the handler, without one it acknowledges at once
LoopGets(registered) ==
    /\ stack.handling = "none"
    /\ session._queue # <<>>
    /\ LET M == get(QueueBundle)
           m == session._queue[Least(session._queue)]
       IN  QueueApply(IF registered THEN [M EXCEPT !.stack.handling = m]
                                    ELSE ack(M, m, TRUE))

\* the handler returns or raises, and _process_loop acknowledges
HandlerReturns(ok) ==
    /\ stack.handling # "none"
    /\ QueueApply(ack([QueueBundle EXCEPT !.stack.handling = "none"],
                      stack.handling, ok))

\* another consumer awaits get()
ConsumerGets ==
    /\ session._queue # <<>>
    /\ QueueApply(get(QueueBundle))

\* another consumer, or the handler itself, acknowledges a message
ConsumerAcks(m, success) ==
    /\ obs[m].status # "none"
    /\ QueueApply(ack(QueueBundle, m, success))

QueueNext ==
    \/ \E m \in Messages : put(m)
    \/ \E r \in BOOLEAN : LoopGets(r)
    \/ \E ok \in BOOLEAN : HandlerReturns(ok)
    \/ ConsumerGets
    \/ \E m \in Messages, ok \in BOOLEAN : ConsumerAcks(m, ok)

SpecQueue == QueueInit /\ [][QueueNext]_vars

\* the number of times m is in the heap
InHeap(m) ==
    Cardinality({i \in 1..Len(session._queue) : session._queue[i] = m})

\* C37: a message is handed out at most max_retries + 1 times and has been
\* pushed again at most max_retries times; it is FAILED only after its last
\* retry has failed; it is never in the heap twice, nor in the heap and in
\* the processing map at once, and in neither once COMPLETED or FAILED
C37_BoundedRetries ==
    \A m \in Messages :
        /\ obs[m].handed <= QueueMaxRetries + 1
        /\ obs[m].retry_count <= QueueMaxRetries
        /\ obs[m].handed <= obs[m].retry_count + 1
        /\ obs[m].status = "failed" =>
               /\ obs[m].retry_count = QueueMaxRetries
               /\ obs[m].handed = QueueMaxRetries + 1
        /\ InHeap(m) + (IF m \in session._processing THEN 1 ELSE 0) <= 1
        /\ obs[m].status \in {"completed", "failed"} =>
               InHeap(m) = 0 /\ m \notin session._processing

\* a message whose handler has failed every time has ended FAILED while the
\* other message waits in the heap
C37_Witness ==
    /\ obs["m2"].status = "failed"
    /\ obs["m2"].handed = QueueMaxRetries + 1
    /\ InHeap("m1") = 1

====
